---- MODULE Spec2Model ----
(***************************************************************************)
(* Model of the policy compiler of rust-miniscript                         *)
(* (src/src/policy/compiler.rs) together with the parts of the Miniscript  *)
(* type system it consumes.                                                *)
(*                                                                         *)
(* Numbers.  Probabilities and the compiler's byte costs are f64 in the    *)
(* source.  They are modelled as integers scaled by Scale, so that every   *)
(* probability k/2, k/3 and k/128 and every product of one probability     *)
(* with an integral cost is exact.  Option<T> is modelled with the         *)
(* sentinel None, f64::INFINITY with Infinity and f64::MAX with F64Max.    *)
(***************************************************************************)
EXTENDS Integers, Sequences, FiniteSets, TLC

None == 0 - 1

Scale == 3 * 128

Infinity == 1000000000

F64Max == 1000000 * Scale

\* a probability p (scaled) times a cost x (scaled); 0.0 * f64::MAX = 0.0.
\* The product is taken on the quotient and the remainder of x so that it
\* stays within the integers of the checker.
Mul(p, x) ==
    IF p = 0 THEN 0 ELSE p * (x \div Scale) + (p * (x % Scale)) \div Scale

Max(a, b) == IF a >= b THEN a ELSE b

\* the least element of a non-empty set of numbers
Min(S) == CHOOSE x \in S : \A y \in S : x <= y

\* Option<usize> arithmetic used by the extra-data rules
OptAdd(a, n) == IF a = None THEN None ELSE a + n

OptSum(a, b, n) == IF a = None \/ b = None THEN None ELSE a + b + n

(***************************************************************************)
(* Type system: correctness and malleability (miniscript::types).          *)
(***************************************************************************)

Input_is_subtype(a, b) ==
    \/ a = b
    \/ a = "OneNonZero" /\ b \in {"One", "AnyNonZero"}
    \/ b = "Any"

Correctness_is_subtype(a, b) ==
    /\ a.base = b.base
    /\ Input_is_subtype(a.input, b.input)
    /\ (b.dissatisfiable => a.dissatisfiable)
    /\ (b.unit => a.unit)

Dissat_is_subtype(a, b) == a = b \/ b = "Unknown"

Malleability_is_subtype(a, b) ==
    /\ Dissat_is_subtype(a.dissat, b.dissat)
    /\ (b.safe => a.safe)
    /\ (b.non_malleable => a.non_malleable)

Type_is_subtype(a, b) ==
    /\ Correctness_is_subtype(a.corr, b.corr)
    /\ Malleability_is_subtype(a.mall, b.mall)

Corr(b, i, d, u) == [base |-> b, input |-> i, dissatisfiable |-> d, unit |-> u]

Mall(ds, s, nm) == [dissat |-> ds, safe |-> s, non_malleable |-> nm]

Ty(c, m) == [corr |-> c, mall |-> m]

\* Result<Type, ErrorKind>: ok = FALSE stands for Err(_)
Res(ok, c, m) == [ok |-> ok, ty |-> Ty(c, m)]

Type_from_true == Ty(Corr("B", "Zero", FALSE, TRUE), Mall("None", FALSE, TRUE))

Type_from_false == Ty(Corr("B", "Zero", TRUE, TRUE), Mall("Unique", TRUE, TRUE))

Type_from_pk == Ty(Corr("K", "OneNonZero", TRUE, TRUE), Mall("Unique", TRUE, TRUE))

Type_from_pk_h == Ty(Corr("K", "AnyNonZero", TRUE, TRUE), Mall("Unique", TRUE, TRUE))

Type_from_multi == Ty(Corr("B", "AnyNonZero", TRUE, TRUE), Mall("Unique", TRUE, TRUE))

Type_from_hash == Ty(Corr("B", "OneNonZero", TRUE, TRUE), Mall("Unknown", FALSE, TRUE))

Type_from_time == Ty(Corr("B", "Zero", FALSE, FALSE), Mall("None", FALSE, TRUE))

Type_cast_alt(t) ==
    Res(t.corr.base = "B",
        Corr("W", "Any", t.corr.dissatisfiable, t.corr.unit), t.mall)

Type_cast_swap(t) ==
    Res(t.corr.base = "B" /\ t.corr.input \in {"One", "OneNonZero"},
        Corr("W", "Any", t.corr.dissatisfiable, t.corr.unit), t.mall)

Type_cast_check(t) ==
    Res(t.corr.base = "K",
        Corr("B", t.corr.input, t.corr.dissatisfiable, TRUE), t.mall)

Type_cast_dupif(t) ==
    Res(t.corr.base = "V" /\ t.corr.input = "Zero",
        Corr("B", "OneNonZero", TRUE, TRUE),
        Mall(IF t.mall.dissat = "None" THEN "Unique" ELSE "Unknown",
             t.mall.safe, t.mall.non_malleable))

Type_cast_verify(t) ==
    Res(t.corr.base = "B",
        Corr("V", t.corr.input, FALSE, FALSE),
        Mall("None", t.mall.safe, t.mall.non_malleable))

Type_cast_nonzero(t) ==
    Res(t.corr.base = "B" /\ t.corr.input \in {"OneNonZero", "AnyNonZero"},
        Corr("B", t.corr.input, TRUE, t.corr.unit),
        Mall(IF t.mall.dissat = "None" THEN "Unique" ELSE "Unknown",
             t.mall.safe, t.mall.non_malleable))

Type_cast_zeronotequal(t) ==
    Res(t.corr.base = "B",
        Corr("B", t.corr.input, t.corr.dissatisfiable, TRUE), t.mall)

Type_cast_true(t) ==
    Res(t.corr.base = "V",
        Corr("B", t.corr.input, FALSE, TRUE),
        Mall("None", t.mall.safe, t.mall.non_malleable))

Type_cast_or_i_false(t) ==
    Res(t.corr.base = "B",
        Corr("B", IF t.corr.input = "Zero" THEN "One" ELSE "Any", TRUE, t.corr.unit),
        Mall(IF t.mall.dissat = "None" THEN "Unique" ELSE "Unknown",
             t.mall.safe, t.mall.non_malleable))

\* input rule shared by and_b and and_v
AndInput(l, r) ==
    CASE l = "Zero" /\ r = "Zero" -> "Zero"
      [] (l = "Zero" /\ r = "One") \/ (l = "One" /\ r = "Zero") -> "One"
      [] (l = "Zero" /\ r = "OneNonZero") \/ (l = "OneNonZero" /\ r = "Zero") -> "OneNonZero"
      [] l \in {"OneNonZero", "AnyNonZero"} \/ (l = "Zero" /\ r = "AnyNonZero") -> "AnyNonZero"
      [] OTHER -> "Any"

\* input rule shared by or_d and or_c
OrDInput(l, r) ==
    CASE l \in {"One", "OneNonZero"} /\ r = "Zero" -> "One"
      [] l = "Zero" /\ r = "Zero" -> "Zero"
      [] OTHER -> "Any"

Type_and_b(l, r) ==
    Res(l.corr.base \in {"B", "W"} /\ r.corr.base = "W",
        Corr(l.corr.base, AndInput(l.corr.input, r.corr.input),
             l.corr.dissatisfiable /\ r.corr.dissatisfiable, TRUE),
        Mall(CASE l.mall.dissat = "None" /\ r.mall.dissat = "None" -> "None"
               [] l.mall.dissat = "None" /\ l.mall.safe -> "None"
               [] r.mall.dissat = "None" /\ r.mall.safe -> "None"
               [] l.mall.dissat = "Unique" /\ r.mall.dissat = "Unique" ->
                    IF l.mall.safe /\ r.mall.safe THEN "Unique" ELSE "Unknown"
               [] OTHER -> "Unknown",
             l.mall.safe \/ r.mall.safe,
             l.mall.non_malleable /\ r.mall.non_malleable))

Type_and_v(l, r) ==
    Res(l.corr.base = "V" /\ r.corr.base \in {"B", "K", "V"},
        Corr(r.corr.base, AndInput(l.corr.input, r.corr.input), FALSE, r.corr.unit),
        Mall(IF r.mall.dissat = "None" \/ l.mall.safe THEN "None" ELSE "Unknown",
             l.mall.safe \/ r.mall.safe,
             l.mall.non_malleable /\ r.mall.non_malleable))

Type_or_b(l, r) ==
    Res(/\ l.corr.dissatisfiable /\ r.corr.dissatisfiable
        /\ l.corr.base = "B" /\ r.corr.base = "W",
        Corr("B",
             CASE l.corr.input = "Zero" /\ r.corr.input = "Zero" -> "Zero"
               [] \/ l.corr.input = "Zero" /\ r.corr.input \in {"One", "OneNonZero"}
                  \/ l.corr.input \in {"One", "OneNonZero"} /\ r.corr.input = "Zero" -> "One"
               [] OTHER -> "Any",
             TRUE, TRUE),
        Mall("Unique", l.mall.safe /\ r.mall.safe,
             /\ l.mall.non_malleable /\ l.mall.dissat = "Unique"
             /\ r.mall.non_malleable /\ r.mall.dissat = "Unique"
             /\ (l.mall.safe \/ r.mall.safe)))

Type_or_d(l, r) ==
    Res(/\ l.corr.dissatisfiable /\ l.corr.unit
        /\ l.corr.base = "B" /\ r.corr.base = "B",
        Corr("B", OrDInput(l.corr.input, r.corr.input),
             r.corr.dissatisfiable, r.corr.unit),
        Mall(r.mall.dissat, l.mall.safe /\ r.mall.safe,
             /\ l.mall.non_malleable /\ l.mall.dissat = "Unique"
             /\ r.mall.non_malleable
             /\ (l.mall.safe \/ r.mall.safe)))

Type_or_c(l, r) ==
    Res(/\ l.corr.dissatisfiable /\ l.corr.unit
        /\ l.corr.base = "B" /\ r.corr.base = "V",
        Corr("V", OrDInput(l.corr.input, r.corr.input), FALSE, FALSE),
        Mall("None", l.mall.safe /\ r.mall.safe,
             /\ l.mall.non_malleable /\ l.mall.dissat = "Unique"
             /\ r.mall.non_malleable
             /\ (l.mall.safe \/ r.mall.safe)))

Type_or_i(l, r) ==
    Res(l.corr.base = r.corr.base /\ l.corr.base \in {"B", "V", "K"},
        Corr(l.corr.base,
             IF l.corr.input = "Zero" /\ r.corr.input = "Zero" THEN "One" ELSE "Any",
             l.corr.dissatisfiable \/ r.corr.dissatisfiable,
             l.corr.unit /\ r.corr.unit),
        Mall(CASE l.mall.dissat = "None" /\ r.mall.dissat = "None" -> "None"
               [] l.mall.dissat = "Unique" /\ r.mall.dissat = "None" -> "Unique"
               [] l.mall.dissat = "None" /\ r.mall.dissat = "Unique" -> "Unique"
               [] OTHER -> "Unknown",
             l.mall.safe /\ r.mall.safe,
             /\ l.mall.non_malleable /\ r.mall.non_malleable
             /\ (l.mall.safe \/ r.mall.safe)))

Type_and_or(a, b, c) ==
    Res(/\ a.corr.dissatisfiable /\ a.corr.unit
        /\ a.corr.base = "B" /\ b.corr.base = c.corr.base
        /\ b.corr.base \in {"B", "K", "V"},
        Corr(b.corr.base,
             CASE a.corr.input = "Zero" /\ b.corr.input = "Zero" /\ c.corr.input = "Zero" -> "Zero"
               [] /\ a.corr.input = "Zero"
                  /\ b.corr.input \in {"One", "OneNonZero"}
                  /\ c.corr.input \in {"One", "OneNonZero"} -> "One"
               [] /\ a.corr.input \in {"One", "OneNonZero"}
                  /\ b.corr.input = "Zero" /\ c.corr.input = "Zero" -> "One"
               [] OTHER -> "Any",
             c.corr.dissatisfiable, b.corr.unit /\ c.corr.unit),
        Mall(CASE c.mall.dissat = "Unique" /\ (b.mall.dissat = "None" \/ a.mall.safe) -> "Unique"
               [] c.mall.dissat = "None" /\ (b.mall.dissat = "None" \/ a.mall.safe) -> "None"
               [] OTHER -> "Unknown",
             (a.mall.safe \/ b.mall.safe) /\ c.mall.safe,
             /\ a.mall.non_malleable /\ c.mall.non_malleable
             /\ a.mall.dissat = "Unique" /\ b.mall.non_malleable
             /\ (a.mall.safe \/ b.mall.safe \/ c.mall.safe)))

\* number of subs of a sequence of types satisfying a predicate
RECURSIVE CountSafe(_)
CountSafe(ts) ==
    IF ts = <<>> THEN 0
    ELSE (IF Head(ts).mall.safe THEN 1 ELSE 0) + CountSafe(Tail(ts))

ThreshArgs(ts) ==
    LET n(i) == CASE ts[i].corr.input = "Zero" -> 0
                  [] ts[i].corr.input \in {"One", "OneNonZero"} -> 1
                  [] OTHER -> 2
        F[i \in 0..Len(ts)] == IF i = 0 THEN 0 ELSE F[i - 1] + n(i)
    IN  F[Len(ts)]

Type_threshold(k, ts) ==
    LET n == Len(ts)
        unique == \A i \in 1..n : ts[i].mall.dissat = "Unique"
        nonmall == \A i \in 1..n : ts[i].mall.non_malleable
        safe_count == CountSafe(ts)
        args == ThreshArgs(ts)
    IN  Res(/\ k >= 1 /\ k <= n
            /\ \A i \in 1..n :
                 /\ ts[i].corr.base = (IF i = 1 THEN "B" ELSE "W")
                 /\ ts[i].corr.unit /\ ts[i].corr.dissatisfiable,
            Corr("B", CASE args = 0 -> "Zero" [] args = 1 -> "One" [] OTHER -> "Any",
                 TRUE, TRUE),
            Mall(IF unique /\ safe_count = n THEN "Unique" ELSE "Unknown",
                 safe_count > n - k,
                 nonmall /\ safe_count >= n - k /\ unique))

(***************************************************************************)
(* Extra data: script size and opcode counts (types::extra_props).         *)
(***************************************************************************)

Ext(pk, hvf, st, sat, nsat) ==
    [pk_cost |-> pk, has_verify_form |-> hvf, ops_count_static |-> st,
     ops_count_sat |-> sat, ops_count_nsat |-> nsat]

script_num_size(n) ==
    CASE n <= 16 -> 1
      [] n < 128 -> 2
      [] n < 32768 -> 3
      [] n < 8388608 -> 4
      [] OTHER -> 5

ExtData_from_true == Ext(1, FALSE, 0, 0, None)

ExtData_from_false == Ext(1, FALSE, 0, None, 0)

ExtData_from_pk == Ext(34, FALSE, 0, 0, 0)

ExtData_from_pk_h == Ext(24, FALSE, 3, 3, 3)

ExtData_from_multi(k, n) ==
    Ext(script_num_size(k) + 34 * n + script_num_size(n) + 1, TRUE, 1, n + 1, n + 1)

ExtData_from_sha256 == Ext(33 + 6, TRUE, 4, 4, 4)

ExtData_from_time(t) == Ext(script_num_size(t) + 1, FALSE, 1, 1, None)

ExtData_cast_alt(e) ==
    Ext(e.pk_cost + 2, FALSE, e.ops_count_static + 2,
        OptAdd(e.ops_count_sat, 2), OptAdd(e.ops_count_nsat, 2))

ExtData_cast_swap(e) ==
    Ext(e.pk_cost + 1, e.has_verify_form, e.ops_count_static + 1,
        OptAdd(e.ops_count_sat, 1), OptAdd(e.ops_count_nsat, 1))

ExtData_cast_check(e) ==
    Ext(e.pk_cost + 1, TRUE, e.ops_count_static + 1,
        OptAdd(e.ops_count_sat, 1), OptAdd(e.ops_count_nsat, 1))

ExtData_cast_dupif(e) ==
    Ext(e.pk_cost + 3, FALSE, e.ops_count_static + 3,
        OptAdd(e.ops_count_sat, 3), e.ops_count_static + 3)

ExtData_cast_verify(e) ==
    LET verify_cost == IF e.has_verify_form THEN 0 ELSE 1
    IN  Ext(e.pk_cost + verify_cost, FALSE, e.ops_count_static + verify_cost,
            OptAdd(e.ops_count_sat, verify_cost), None)

ExtData_cast_nonzero(e) ==
    Ext(e.pk_cost + 4, FALSE, e.ops_count_static + 4,
        OptAdd(e.ops_count_sat, 4), e.ops_count_static + 4)

ExtData_cast_zeronotequal(e) ==
    Ext(e.pk_cost + 1, FALSE, e.ops_count_static + 1,
        OptAdd(e.ops_count_sat, 1), OptAdd(e.ops_count_nsat, 1))

ExtData_cast_true(e) ==
    Ext(e.pk_cost + 1, FALSE, e.ops_count_static, e.ops_count_sat, None)

\* cast_likely and cast_unlikely share this rule
ExtData_cast_or_i_false(e) ==
    Ext(e.pk_cost + 4, FALSE, e.ops_count_static + 3,
        OptAdd(e.ops_count_sat, 3), e.ops_count_static + 3)

ExtData_and_b(l, r) ==
    Ext(l.pk_cost + r.pk_cost + 1, FALSE,
        l.ops_count_static + r.ops_count_static + 1,
        OptSum(l.ops_count_sat, r.ops_count_sat, 1),
        OptSum(l.ops_count_nsat, r.ops_count_nsat, 1))

ExtData_and_v(l, r) ==
    Ext(l.pk_cost + r.pk_cost, r.has_verify_form,
        l.ops_count_static + r.ops_count_static,
        OptSum(l.ops_count_sat, r.ops_count_sat, 0), None)

ExtData_or_b(l, r) ==
    Ext(l.pk_cost + r.pk_cost + 1, FALSE,
        l.ops_count_static + r.ops_count_static + 1,
        Max(OptSum(l.ops_count_sat, r.ops_count_nsat, 1),
            OptSum(r.ops_count_sat, l.ops_count_nsat, 1)),
        OptSum(l.ops_count_nsat, r.ops_count_nsat, 1))

ExtData_or_d(l, r) ==
    Ext(l.pk_cost + r.pk_cost + 3, FALSE,
        l.ops_count_static + r.ops_count_static + 3,
        Max(OptAdd(l.ops_count_sat, 3 + r.ops_count_static),
            OptSum(r.ops_count_sat, l.ops_count_nsat, 3)),
        OptSum(l.ops_count_nsat, r.ops_count_nsat, 3))

ExtData_or_c(l, r) ==
    Ext(l.pk_cost + r.pk_cost + 2, FALSE,
        l.ops_count_static + r.ops_count_static + 2,
        Max(OptAdd(l.ops_count_sat, 2 + r.ops_count_static),
            OptSum(r.ops_count_sat, l.ops_count_nsat, 2)),
        None)

ExtData_or_i(l, r) ==
    Ext(l.pk_cost + r.pk_cost + 3, FALSE,
        l.ops_count_static + r.ops_count_static + 3,
        Max(OptAdd(l.ops_count_sat, 3 + r.ops_count_static),
            OptAdd(r.ops_count_sat, 3 + l.ops_count_static)),
        IF l.ops_count_nsat = None /\ r.ops_count_nsat = None THEN None
        ELSE Max(l.ops_count_nsat, r.ops_count_nsat) + 3)

ExtData_and_or(a, b, c) ==
    Ext(a.pk_cost + b.pk_cost + c.pk_cost + 3, FALSE,
        a.ops_count_static + b.ops_count_static + c.ops_count_static + 3,
        Max(OptSum(a.ops_count_sat, b.ops_count_sat, c.ops_count_static + 3),
            OptSum(a.ops_count_nsat, c.ops_count_sat, b.ops_count_static + 3)),
        OptSum(a.ops_count_nsat, c.ops_count_nsat, b.ops_count_static + 3))

\* sum of a sequence of Option<number>; None if any summand is None
RECURSIVE SumOpt(_)
SumOpt(xs) ==
    IF xs = <<>> THEN 0
    ELSE LET t == SumOpt(Tail(xs))
         IN  IF Head(xs) = None \/ t = None THEN None ELSE Head(xs) + t

ExtData_threshold(k, es) ==
    LET n == Len(es)
    IN  Ext(SumOpt([i \in 1..n |-> es[i].pk_cost]) + (n - 1) + script_num_size(k) + 1,
            TRUE,
            SumOpt([i \in 1..n |-> es[i].ops_count_static]) + (n - 1) + 1,
            OptAdd(SumOpt([i \in 1..n |-> es[i].ops_count_sat]), (n - 1) + 1),
            OptAdd(SumOpt([i \in 1..n |-> es[i].ops_count_nsat]), (n - 1) + 1))

(***************************************************************************)
(* Compiler extra data: expected witness costs (compiler.rs lines 131-422) *)
(***************************************************************************)

MAX_OPS_PER_SCRIPT == 201

CompilerExtData(bp, sat, dis) ==
    [branch_prob |-> bp, sat_cost |-> sat, dissat_cost |-> dis]

CompilerExtData_from_false == CompilerExtData(None, F64Max, 0)

CompilerExtData_from_pk == CompilerExtData(None, 73 * Scale, 1 * Scale)

CompilerExtData_from_pk_h == CompilerExtData(None, (73 + 34) * Scale, (1 + 34) * Scale)

CompilerExtData_from_multi(k, n) ==
    CompilerExtData(None, (1 + 73 * k) * Scale, (k + 1) * Scale)

CompilerExtData_from_hash == CompilerExtData(None, 33 * Scale, 33 * Scale)

CompilerExtData_from_time == CompilerExtData(None, 0, None)

CompilerExtData_cast_alt(c) == CompilerExtData(None, c.sat_cost, c.dissat_cost)

CompilerExtData_cast_swap(c) == CompilerExtData(None, c.sat_cost, c.dissat_cost)

CompilerExtData_cast_check(c) == CompilerExtData(None, c.sat_cost, c.dissat_cost)

CompilerExtData_cast_dupif(c) == CompilerExtData(None, 2 * Scale + c.sat_cost, 1 * Scale)

CompilerExtData_cast_verify(c) == CompilerExtData(None, c.sat_cost, None)

CompilerExtData_cast_nonzero(c) == CompilerExtData(None, c.sat_cost, 1 * Scale)

CompilerExtData_cast_zeronotequal(c) == CompilerExtData(None, c.sat_cost, c.dissat_cost)

CompilerExtData_cast_true(c) == CompilerExtData(None, c.sat_cost, None)

CompilerExtData_cast_unlikely(c) == CompilerExtData(None, 2 * Scale + c.sat_cost, 1 * Scale)

\* cast_likely with the costs of cast_unlikely
CompilerExtData_cast_likely_swapped(c) == CompilerExtData(None, 2 * Scale + c.sat_cost, 1 * Scale)

CompilerExtData_cast_likely(c) == CompilerExtData(None, 1 * Scale + c.sat_cost, 2 * Scale)

CompilerExtData_and_b(l, r) ==
    CompilerExtData(None, l.sat_cost + r.sat_cost,
        IF l.dissat_cost # None /\ r.dissat_cost # None
        THEN l.dissat_cost + r.dissat_cost ELSE None)

CompilerExtData_and_v(l, r) == CompilerExtData(None, l.sat_cost + r.sat_cost, None)

CompilerExtData_or_b(l, r) ==
    CompilerExtData(None,
        Mul(l.branch_prob, l.sat_cost + r.dissat_cost)
          + Mul(r.branch_prob, r.sat_cost + l.dissat_cost),
        l.dissat_cost + r.dissat_cost)

CompilerExtData_or_d(l, r) ==
    CompilerExtData(None,
        Mul(l.branch_prob, l.sat_cost)
          + Mul(r.branch_prob, r.sat_cost + l.dissat_cost),
        IF r.dissat_cost = None THEN None ELSE l.dissat_cost + r.dissat_cost)

CompilerExtData_or_c(l, r) ==
    CompilerExtData(None,
        Mul(l.branch_prob, l.sat_cost)
          + Mul(r.branch_prob, r.sat_cost + l.dissat_cost),
        None)

CompilerExtData_or_i(l, r) ==
    CompilerExtData(None,
        Mul(l.branch_prob, 2 * Scale + l.sat_cost)
          + Mul(r.branch_prob, 1 * Scale + r.sat_cost),
        CASE l.dissat_cost # None /\ r.dissat_cost # None ->
               IF 2 * Scale + l.dissat_cost > 1 * Scale + r.dissat_cost
               THEN 1 * Scale + r.dissat_cost ELSE 2 * Scale + l.dissat_cost
          [] l.dissat_cost # None /\ r.dissat_cost = None -> 2 * Scale + l.dissat_cost
          [] l.dissat_cost = None /\ r.dissat_cost # None -> 1 * Scale + r.dissat_cost
          [] OTHER -> None)

CompilerExtData_and_or(a, b, c) ==
    CompilerExtData(None,
        Mul(a.branch_prob, a.sat_cost + b.sat_cost)
          + Mul(c.branch_prob, a.dissat_cost + c.sat_cost),
        IF c.dissat_cost # None THEN a.dissat_cost + c.dissat_cost ELSE None)

CompilerExtData_threshold(k, cs) ==
    LET n == Len(cs)
        sat_cost == SumOpt([i \in 1..n |-> cs[i].sat_cost])
        dissat_cost == SumOpt([i \in 1..n |-> cs[i].dissat_cost])
    IN  CompilerExtData(None,
            (sat_cost * k) \div n + (dissat_cost * (n - k)) \div n,
            dissat_cost)

(***************************************************************************)
(* Miniscript nodes.  A Terminal is [op, arg, subs]; a Miniscript caches   *)
(* its type and extra data next to the node (miniscript/mod.rs 51-58).     *)
(***************************************************************************)

Terminal(op, arg, subs) == [op |-> op, arg |-> arg, subs |-> subs]

Miniscript(node, ty, ext) == [node |-> node, ty |-> ty, ext |-> ext]

\* Type::type_check(&ast, |_| None): the type of a node from its children's
\* cached types
Type_type_check(t) ==
    LET x(i) == t.subs[i].ty
        n == Len(t.subs)
    IN  CASE t.op = "false" -> [ok |-> TRUE, ty |-> Type_from_false]
          [] t.op = "true" -> [ok |-> TRUE, ty |-> Type_from_true]
          [] t.op = "pk" -> [ok |-> TRUE, ty |-> Type_from_pk]
          [] t.op = "pk_h" -> [ok |-> TRUE, ty |-> Type_from_pk_h]
          [] t.op \in {"after", "older"} ->
               [ok |-> t.arg > 0, ty |-> Type_from_time]
          [] t.op = "sha256" -> [ok |-> TRUE, ty |-> Type_from_hash]
          [] t.op = "thresh_m" ->
               [ok |-> t.arg >= 1 /\ t.arg <= n, ty |-> Type_from_multi]
          [] t.op = "a" -> Type_cast_alt(x(1))
          [] t.op = "s" -> Type_cast_swap(x(1))
          [] t.op = "c" -> Type_cast_check(x(1))
          [] t.op = "d" -> Type_cast_dupif(x(1))
          [] t.op = "v" -> Type_cast_verify(x(1))
          [] t.op = "j" -> Type_cast_nonzero(x(1))
          [] t.op = "n" -> Type_cast_zeronotequal(x(1))
          [] t.op = "and_v" -> Type_and_v(x(1), x(2))
          [] t.op = "and_b" -> Type_and_b(x(1), x(2))
          [] t.op = "or_b" -> Type_or_b(x(1), x(2))
          [] t.op = "or_d" -> Type_or_d(x(1), x(2))
          [] t.op = "or_c" -> Type_or_c(x(1), x(2))
          [] t.op = "or_i" -> Type_or_i(x(1), x(2))
          [] t.op = "andor" -> Type_and_or(x(1), x(2), x(3))
          [] t.op = "thresh" -> Type_threshold(t.arg, [i \in 1..n |-> x(i)])

\* ExtData::type_check(&ast, |_| None)
ExtData_type_check(t) ==
    LET x(i) == t.subs[i].ext
        n == Len(t.subs)
    IN  CASE t.op = "false" -> ExtData_from_false
          [] t.op = "true" -> ExtData_from_true
          [] t.op = "pk" -> ExtData_from_pk
          [] t.op = "pk_h" -> ExtData_from_pk_h
          [] t.op \in {"after", "older"} -> ExtData_from_time(t.arg)
          [] t.op = "sha256" -> ExtData_from_sha256
          [] t.op = "thresh_m" -> ExtData_from_multi(t.arg, n)
          [] t.op = "a" -> ExtData_cast_alt(x(1))
          [] t.op = "s" -> ExtData_cast_swap(x(1))
          [] t.op = "c" -> ExtData_cast_check(x(1))
          [] t.op = "d" -> ExtData_cast_dupif(x(1))
          [] t.op = "v" -> ExtData_cast_verify(x(1))
          [] t.op = "j" -> ExtData_cast_nonzero(x(1))
          [] t.op = "n" -> ExtData_cast_zeronotequal(x(1))
          [] t.op = "and_v" -> ExtData_and_v(x(1), x(2))
          [] t.op = "and_b" -> ExtData_and_b(x(1), x(2))
          [] t.op = "or_b" -> ExtData_or_b(x(1), x(2))
          [] t.op = "or_d" -> ExtData_or_d(x(1), x(2))
          [] t.op = "or_c" -> ExtData_or_c(x(1), x(2))
          [] t.op = "or_i" -> ExtData_or_i(x(1), x(2))
          [] t.op = "andor" -> ExtData_and_or(x(1), x(2), x(3))
          [] t.op = "thresh" -> ExtData_threshold(t.arg, [i \in 1..n |-> x(i)])

\* Miniscript::from_ast (mod.rs 102-108); ok = FALSE is Err(_)
Typed(t, ty) == [ok |-> ty.ok, ms |-> Miniscript(t, ty.ty, ExtData_type_check(t))]

from_ast(t) == Typed(t, Type_type_check(t))

\* the keys of a thresh_m are kept as pk sub-nodes
KeyLeaf(k) == from_ast(Terminal("pk", k, <<>>)).ms

(***************************************************************************)
(* AstElemExt (compiler.rs 424-508)                                        *)
(***************************************************************************)

AstElemExt(ms, c) == [ms |-> ms, comp_ext_data |-> c]

\* cost_1d with the (Some(_), None) arm of lines 442 weighting a missing
\* dissatisfaction cost by the probability, so that Some(0) costs nothing
cost_1d_weighted(e, sat_prob, dissat_prob) ==
    IF dissat_prob # None /\ dissat_prob # 0 /\ e.comp_ext_data.dissat_cost = None
    THEN Infinity
    ELSE e.ms.ext.pk_cost * Scale
           + Mul(sat_prob, e.comp_ext_data.sat_cost)
           + (IF dissat_prob # None /\ e.comp_ext_data.dissat_cost # None
              THEN Mul(dissat_prob, e.comp_ext_data.dissat_cost) ELSE 0)

\* AstElemExt::cost_1d (compiler.rs 437-446)
cost_1d(e, sat_prob, dissat_prob) ==
    IF dissat_prob # None /\ e.comp_ext_data.dissat_cost = None THEN Infinity
    ELSE e.ms.ext.pk_cost * Scale
           + Mul(sat_prob, e.comp_ext_data.sat_cost)
           + (IF dissat_prob # None
              THEN Mul(dissat_prob, e.comp_ext_data.dissat_cost) ELSE 0)

\* CompilerExtData::type_check for a terminal without children
CompilerExtData_terminal(t) ==
    CASE t.op = "false" -> CompilerExtData_from_false
      [] t.op = "pk" -> CompilerExtData_from_pk
      [] t.op = "pk_h" -> CompilerExtData_from_pk_h
      [] t.op \in {"after", "older"} -> CompilerExtData_from_time
      [] t.op = "sha256" -> CompilerExtData_from_hash
      [] t.op = "thresh_m" -> CompilerExtData_from_multi(t.arg, Len(t.subs))

\* AstElemExt::terminal (compiler.rs 450-455): expect() aborts when the
\* terminal does not type-check
WithCompExt(m, c) == [ok |-> m.ok, elem |-> AstElemExt(m.ms, c)]

terminal(t) == WithCompExt(from_ast(t), CompilerExtData_terminal(t))

\* AstElemExt::binary (compiler.rs 457-480)
binary(op, l, r) ==
    WithCompExt(
        from_ast(Terminal(op, 0, <<l.ms, r.ms>>)),
        CASE op = "and_b" -> CompilerExtData_and_b(l.comp_ext_data, r.comp_ext_data)
          [] op = "and_v" -> CompilerExtData_and_v(l.comp_ext_data, r.comp_ext_data)
          [] op = "or_b" -> CompilerExtData_or_b(l.comp_ext_data, r.comp_ext_data)
          [] op = "or_d" -> CompilerExtData_or_d(l.comp_ext_data, r.comp_ext_data)
          [] op = "or_c" -> CompilerExtData_or_c(l.comp_ext_data, r.comp_ext_data)
          [] op = "or_i" -> CompilerExtData_or_i(l.comp_ext_data, r.comp_ext_data))

\* AstElemExt::ternary (compiler.rs 482-507)
ternary(a, b, c) ==
    WithCompExt(
        from_ast(Terminal("andor", 0, <<a.ms, b.ms, c.ms>>)),
        CompilerExtData_and_or(a.comp_ext_data, b.comp_ext_data, c.comp_ext_data))

FalseMs == from_ast(Terminal("false", 0, <<>>)).ms

TrueMs == from_ast(Terminal("true", 0, <<>>)).ms

(***************************************************************************)
(* Casts (compiler.rs 510-616)                                             *)
(***************************************************************************)

NumCasts == 10

\* all_casts()[i - 1].node
OrIFalse(i, ms, f) == Terminal("or_i", 0, IF i = 3 THEN <<f, ms>> ELSE <<ms, f>>)

Cast_node(i, ms) ==
    CASE i = 1 -> Terminal("c", 0, <<ms>>)
      [] i = 2 -> Terminal("d", 0, <<ms>>)
      [] i \in {3, 4} -> OrIFalse(i, ms, FalseMs)
      [] i = 5 -> Terminal("v", 0, <<ms>>)
      [] i = 6 -> Terminal("j", 0, <<ms>>)
      [] i = 7 -> Terminal("and_v", 0, <<ms, TrueMs>>)
      [] i = 8 -> Terminal("s", 0, <<ms>>)
      [] i = 9 -> Terminal("a", 0, <<ms>>)
      [] i = 10 -> Terminal("n", 0, <<ms>>)

\* all_casts()[i - 1].ast_type
Cast_ast_type(i, ty) ==
    CASE i = 1 -> Type_cast_check(ty)
      [] i = 2 -> Type_cast_dupif(ty)
      [] i = 3 -> Type_cast_or_i_false(ty)
      [] i = 4 -> Type_cast_or_i_false(ty)
      [] i = 5 -> Type_cast_verify(ty)
      [] i = 6 -> Type_cast_nonzero(ty)
      [] i = 7 -> Type_cast_true(ty)
      [] i = 8 -> Type_cast_swap(ty)
      [] i = 9 -> Type_cast_alt(ty)
      [] i = 10 -> Type_cast_zeronotequal(ty)

\* all_casts()[i - 1].ext_data
Cast_ext_data(i, e) ==
    CASE i = 1 -> ExtData_cast_check(e)
      [] i = 2 -> ExtData_cast_dupif(e)
      [] i = 3 -> ExtData_cast_or_i_false(e)
      [] i = 4 -> ExtData_cast_or_i_false(e)
      [] i = 5 -> ExtData_cast_verify(e)
      [] i = 6 -> ExtData_cast_nonzero(e)
      [] i = 7 -> ExtData_cast_true(e)
      [] i = 8 -> ExtData_cast_swap(e)
      [] i = 9 -> ExtData_cast_alt(e)
      [] i = 10 -> ExtData_cast_zeronotequal(e)

\* all_casts()[i - 1].comp_ext_data
Cast_comp_ext_data(i, c) ==
    CASE i = 1 -> CompilerExtData_cast_check(c)
      [] i = 2 -> CompilerExtData_cast_dupif(c)
      [] i = 3 -> CompilerExtData_cast_likely(c)
      [] i = 4 -> CompilerExtData_cast_unlikely(c)
      [] i = 5 -> CompilerExtData_cast_verify(c)
      [] i = 6 -> CompilerExtData_cast_nonzero(c)
      [] i = 7 -> CompilerExtData_cast_true(c)
      [] i = 8 -> CompilerExtData_cast_swap(c)
      [] i = 9 -> CompilerExtData_cast_alt(c)
      [] i = 10 -> CompilerExtData_cast_zeronotequal(c)

\* Cast::cast (compiler.rs 520-529)
CastTyped(i, ast, ty) ==
    [ok |-> ty.ok,
     elem |-> AstElemExt(
                Miniscript(Cast_node(i, ast.ms), ty.ty, Cast_ext_data(i, ast.ms.ext)),
                Cast_comp_ext_data(i, ast.comp_ext_data))]

cast(i, ast) == CastTyped(i, ast, Cast_ast_type(i, ast.ms.ty))

(***************************************************************************)
(* Candidate maps (compiler.rs 92-129, 618-700).  A map is a function from *)
(* CompilationKey to AstElemExt.                                           *)
(***************************************************************************)

CompilationKey_from_type(ty, expensive_verify, dissat_prob) ==
    [ty |-> ty, expensive_verify |-> expensive_verify, dissat_prob |-> dissat_prob]

CompilationKey_is_subtype(a, b) ==
    /\ Type_is_subtype(a.ty, b.ty)
    /\ a.expensive_verify = b.expensive_verify
    /\ a.dissat_prob = b.dissat_prob

EmptyMap == [k \in {} |-> 0]

MapInsert(map, key, elem) ==
    [k \in DOMAIN map \cup {key} |-> IF k = key THEN elem ELSE map[k]]

MapRetain(map, keep(_)) ==
    [k \in {j \in DOMAIN map : keep(j)} |-> map[k]]

\* insert_elem without the retain of lines 659-662
insert_elem_no_retain(map, elem, sat_prob, dissat_prob) ==
    IF ~elem.ms.ty.mall.non_malleable
    THEN [map |-> map, inserted |-> FALSE]
    ELSE IF /\ elem.ms.ext.ops_count_sat # None
            /\ elem.ms.ext.ops_count_sat > MAX_OPS_PER_SCRIPT
    THEN [map |-> map, inserted |-> FALSE]
    ELSE LET elem_cost == cost_1d(elem, sat_prob, dissat_prob)
             elem_key == CompilationKey_from_type(elem.ms.ty,
                             elem.ms.ext.has_verify_form, dissat_prob)
             is_worse == \E k \in DOMAIN map :
                             /\ CompilationKey_is_subtype(k, elem_key)
                             /\ cost_1d(map[k], sat_prob, dissat_prob) <= elem_cost
         IN  IF is_worse
             THEN [map |-> map, inserted |-> FALSE]
             ELSE [map |-> MapInsert(map, elem_key, elem), inserted |-> TRUE]

\* insert_elem without the opcode check of lines 636-640
insert_elem_no_limit(map, elem, sat_prob, dissat_prob) ==
    IF ~elem.ms.ty.mall.non_malleable
    THEN [map |-> map, inserted |-> FALSE]
    ELSE LET elem_cost == cost_1d(elem, sat_prob, dissat_prob)
             elem_key == CompilationKey_from_type(elem.ms.ty,
                             elem.ms.ext.has_verify_form, dissat_prob)
             is_worse == \E k \in DOMAIN map :
                             /\ CompilationKey_is_subtype(k, elem_key)
                             /\ cost_1d(map[k], sat_prob, dissat_prob) <= elem_cost
             keep(k) == ~(/\ CompilationKey_is_subtype(elem_key, k)
                          /\ cost_1d(map[k], sat_prob, dissat_prob) >= elem_cost)
         IN  IF is_worse
             THEN [map |-> map, inserted |-> FALSE]
             ELSE [map |-> MapInsert(MapRetain(map, keep), elem_key, elem),
                   inserted |-> TRUE]

\* insert_elem with an is_worse that does not compare the costs
insert_elem_any_cost(map, elem, sat_prob, dissat_prob) ==
    IF ~elem.ms.ty.mall.non_malleable
    THEN [map |-> map, inserted |-> FALSE]
    ELSE IF /\ elem.ms.ext.ops_count_sat # None
            /\ elem.ms.ext.ops_count_sat > MAX_OPS_PER_SCRIPT
    THEN [map |-> map, inserted |-> FALSE]
    ELSE LET elem_cost == cost_1d(elem, sat_prob, dissat_prob)
             elem_key == CompilationKey_from_type(elem.ms.ty,
                             elem.ms.ext.has_verify_form, dissat_prob)
             is_worse == \E k \in DOMAIN map : CompilationKey_is_subtype(k, elem_key)
             keep(k) == ~(/\ CompilationKey_is_subtype(elem_key, k)
                          /\ cost_1d(map[k], sat_prob, dissat_prob) >= elem_cost)
         IN  IF is_worse
             THEN [map |-> map, inserted |-> FALSE]
             ELSE [map |-> MapInsert(MapRetain(map, keep), elem_key, elem),
                   inserted |-> TRUE]

\* insert_elem with a strict comparison in is_worse of line 652
insert_elem_strict(map, elem, sat_prob, dissat_prob) ==
    IF ~elem.ms.ty.mall.non_malleable
    THEN [map |-> map, inserted |-> FALSE]
    ELSE IF /\ elem.ms.ext.ops_count_sat # None
            /\ elem.ms.ext.ops_count_sat > MAX_OPS_PER_SCRIPT
    THEN [map |-> map, inserted |-> FALSE]
    ELSE LET elem_cost == cost_1d(elem, sat_prob, dissat_prob)
             elem_key == CompilationKey_from_type(elem.ms.ty,
                             elem.ms.ext.has_verify_form, dissat_prob)
             is_worse == \E k \in DOMAIN map :
                             /\ CompilationKey_is_subtype(k, elem_key)
                             /\ cost_1d(map[k], sat_prob, dissat_prob) < elem_cost
             keep(k) == ~(/\ CompilationKey_is_subtype(elem_key, k)
                          /\ cost_1d(map[k], sat_prob, dissat_prob) >= elem_cost)
         IN  IF is_worse
             THEN [map |-> map, inserted |-> FALSE]
             ELSE [map |-> MapInsert(MapRetain(map, keep), elem_key, elem),
                   inserted |-> TRUE]

\* insert_elem (compiler.rs 626-667): the map afterwards and the returned bool
insert_elem(map, elem, sat_prob, dissat_prob) ==
    IF ~elem.ms.ty.mall.non_malleable
    THEN [map |-> map, inserted |-> FALSE]
    ELSE IF /\ elem.ms.ext.ops_count_sat # None
            /\ elem.ms.ext.ops_count_sat > MAX_OPS_PER_SCRIPT
    THEN [map |-> map, inserted |-> FALSE]
    ELSE LET elem_cost == cost_1d(elem, sat_prob, dissat_prob)
             elem_key == CompilationKey_from_type(elem.ms.ty,
                             elem.ms.ext.has_verify_form, dissat_prob)
             is_worse == \E k \in DOMAIN map :
                             /\ CompilationKey_is_subtype(k, elem_key)
                             /\ cost_1d(map[k], sat_prob, dissat_prob) <= elem_cost
             keep(k) == ~(/\ CompilationKey_is_subtype(elem_key, k)
                          /\ cost_1d(map[k], sat_prob, dissat_prob) >= elem_cost)
         IN  IF is_worse
             THEN [map |-> map, inserted |-> FALSE]
             ELSE [map |-> MapInsert(MapRetain(map, keep), elem_key, elem),
                   inserted |-> TRUE]

\* cast_stack.front() in place of cast_stack.pop_front() at line 690
front(cast_stack) == cast_stack

\* what cast_stack.pop_front() leaves in the queue (compiler.rs 690)
pop_front(cast_stack) == Tail(cast_stack)

\* a push_back that does not look at the bool of insert_elem
EnqueueAlways(st, elem, ins) == [map |-> ins.map, cast_stack |-> Append(st.cast_stack, elem)]

\* the state of the loops of insert_elem_closure
Closure(map, cast_stack) == [map |-> map, cast_stack |-> cast_stack]

Enqueue(st, elem, ins) ==
    IF ins.inserted THEN Closure(ins.map, Append(st.cast_stack, elem)) ELSE st

\* the body of the for loop (compiler.rs 693-697) on cast new_ext of current
try_cast(st, new_ext, sat_prob, dissat_prob) ==
    IF new_ext.ok
    THEN Enqueue(st, new_ext.elem,
                 insert_elem(st.map, new_ext.elem, sat_prob, dissat_prob))
    ELSE st

\* the for loop of insert_elem_closure (compiler.rs 692-698) from cast i on
RECURSIVE try_casts(_, _, _, _, _)
try_casts(st, current, i, sat_prob, dissat_prob) ==
    IF i > NumCasts THEN st
    ELSE try_casts(try_cast(st, cast(i, current), sat_prob, dissat_prob),
                   current, i + 1, sat_prob, dissat_prob)

\* the while loop of insert_elem_closure (compiler.rs 689-699)
RECURSIVE closure_loop(_, _, _)
closure_loop(st, sat_prob, dissat_prob) ==
    IF st.cast_stack = <<>> THEN st.map
    ELSE closure_loop(
             try_casts(Closure(st.map, Tail(st.cast_stack)), Head(st.cast_stack), 1,
                       sat_prob, dissat_prob),
             sat_prob, dissat_prob)

\* insert_elem_closure (compiler.rs 677-700)
insert_elem_closure(map, astelem_ext, sat_prob, dissat_prob) ==
    closure_loop(
        Enqueue(Closure(map, <<>>), astelem_ext,
                insert_elem(map, astelem_ext, sat_prob, dissat_prob)),
        sat_prob, dissat_prob)

(***************************************************************************)
(* Iteration order of a HashMap.  The source iterates candidate maps in    *)
(* the order of a randomly seeded hash; an order is modelled by a seed     *)
(* that permutes a numbering of the keys.                                  *)
(***************************************************************************)

Index(seq, x) == CHOOSE i \in 1..Len(seq) : seq[i] = x

KeyRank(k) ==
    LET c == k.ty.corr
        m == k.ty.mall
    IN  ((((((Index(<<"B", "V", "K", "W">>, c.base) * 5
              + Index(<<"Zero", "One", "Any", "OneNonZero", "AnyNonZero">>, c.input)) * 2
             + (IF c.dissatisfiable THEN 1 ELSE 0)) * 2
            + (IF c.unit THEN 1 ELSE 0)) * 3
           + Index(<<"None", "Unique", "Unknown">>, m.dissat)) * 2
          + (IF m.safe THEN 1 ELSE 0)) * 2
         + (IF m.non_malleable THEN 1 ELSE 0)) * 2
        + (IF k.expensive_verify THEN 1 ELSE 0)

\* position of a key in the iteration order chosen by seed (2749 is prime
\* and larger than every KeyRank, so each seed >= 1 gives a permutation)
HashOrder(k, seed) == (KeyRank(k) * seed) % 2749

RECURSIVE SortKeys(_, _)
SortKeys(keys, seed) ==
    IF keys = {} THEN <<>>
    ELSE LET k == CHOOSE x \in keys :
                      \A y \in keys : HashOrder(x, seed) <= HashOrder(y, seed)
         IN  <<k>> \o SortKeys(keys \ {k}, seed)

\* map.values() in the iteration order of the seed
Values(map, seed) ==
    LET ks == SortKeys(DOMAIN map, seed)
    IN  [i \in 1..Len(ks) |-> map[ks[i]]]

(***************************************************************************)
(* Concrete policies and the recursion of best_compilations                *)
(* (compiler.rs 702-1072)                                                  *)
(***************************************************************************)

Concrete(kind, arg, weights, subs) ==
    [kind |-> kind, arg |-> arg, weights |-> weights, subs |-> subs]

Key(k) == Concrete("Key", k, <<>>, <<>>)

After(n) == Concrete("After", n, <<>>, <<>>)

Older(n) == Concrete("Older", n, <<>>, <<>>)

Sha256(h) == Concrete("Sha256", h, <<>>, <<>>)

And(subs) == Concrete("And", 0, <<>>, subs)

Or(weights, subs) == Concrete("Or", 0, weights, subs)

Threshold(k, subs) == Concrete("Threshold", k, <<>>, subs)

\* the key of the memoization cache: (policy, sat_prob, dissat_prob)
Request(policy, sat_prob, dissat_prob) ==
    [policy |-> policy, sat_prob |-> sat_prob, dissat_prob |-> dissat_prob]

SetBranchProb(e, w) == [e EXCEPT !.comp_ext_data.branch_prob = w]

\* the Ok results of a sequence of Results, in order
OkElems(results) ==
    LET ok(c) == c.ok
        elem(sel) == [j \in 1..Len(sel) |-> sel[j].elem]
    IN  elem(SelectSeq(results, ok))

\* the casts of the entries of best_compilations(policy, sat_prob, None) that
\* insert_best_wrapped tries, in the order of its two loops (compiler.rs
\* 726-733)
WrappedCandidates(none_values) ==
    OkElems([j \in 1..(NumCasts * Len(none_values)) |->
                cast(((j - 1) \div Len(none_values)) + 1,
                     none_values[((j - 1) % Len(none_values)) + 1])])

\* compile_binary (compiler.rs 1005-1036): the fragments its two loops hand to
\* insert_best_wrapped, in order; left and right are the values of the two
\* maps in iteration order
compile_binary(left, right, weights, bin_func) ==
    OkElems([j \in 1..(Len(left) * Len(right)) |->
                binary(bin_func,
                       SetBranchProb(left[((j - 1) \div Len(right)) + 1], weights[1]),
                       SetBranchProb(right[((j - 1) % Len(right)) + 1], weights[2]))])

\* compile_tern (compiler.rs 1041-1072), likewise
compile_tern(a_comp, b_comp, c_comp, weights) ==
    OkElems([j \in 1..(Len(a_comp) * Len(b_comp) * Len(c_comp)) |->
                ternary(SetBranchProb(
                            a_comp[((j - 1) \div (Len(b_comp) * Len(c_comp))) + 1],
                            weights[1]),
                        SetBranchProb(
                            b_comp[(((j - 1) \div Len(c_comp)) % Len(b_comp)) + 1],
                            weights[1]),
                        SetBranchProb(c_comp[((j - 1) % Len(c_comp)) + 1], weights[2]))])

\* call j of insert_elem_closure among those insert_best_wrapped (compiler.rs
\* 711-736) makes for the fragments elems: each fragment, then the wrapped
\* candidates (none when dissat_prob is None)
ClosureCall(elems, wrapped, j) ==
    IF (j - 1) % (Len(wrapped) + 1) = 0
    THEN elems[((j - 1) \div (Len(wrapped) + 1)) + 1]
    ELSE wrapped[(j - 1) % (Len(wrapped) + 1)]

\* the map after calls lo..hi of insert_elem_closure, folded in halves; the
\* map of the first half is computed before the second half starts
RECURSIVE FoldClosure(_, _, _, _, _, _, _)
FoldClosure(map, elems, wrapped, lo, hi, sat_prob, dissat_prob) ==
    IF lo > hi THEN map
    ELSE IF lo = hi
    THEN insert_elem_closure(map, ClosureCall(elems, wrapped, lo), sat_prob, dissat_prob)
    ELSE CHOOSE ret \in
             { FoldClosure(m, elems, wrapped, ((lo + hi) \div 2) + 1, hi,
                           sat_prob, dissat_prob) :
               m \in { FoldClosure(map, elems, wrapped, lo, (lo + hi) \div 2,
                                   sat_prob, dissat_prob) } } : TRUE

\* insert_best_wrapped (compiler.rs 711-736) for each fragment of elems
insert_best_wrapped(map, elems, wrapped, sat_prob, dissat_prob) ==
    FoldClosure(map, elems, wrapped, 1, Len(elems) * (Len(wrapped) + 1),
                sat_prob, dissat_prob)

\* Iterator::min_by_key over the entries passing a filter: the first minimum
\* in iteration order; <<>> when nothing passes
MinByCost(values, keep(_), sat_prob, dissat_prob) ==
    LET sel == SelectSeq(values, keep)
        c(i) == cost_1d(sel[i], sat_prob, dissat_prob)
    IN  IF sel = <<>> THEN <<>>
        ELSE <<sel[CHOOSE i \in 1..Len(sel) :
                     /\ \A j \in 1..Len(sel) : c(i) <= c(j)
                     /\ \A j \in 1..(i - 1) : c(j) > c(i)]>>

\* best_t without the filter on the base type of lines 1104-1107
best_t_any_base(values, sat_prob, dissat_prob) ==
    LET keep(e) == TRUE
    IN  MinByCost(values, keep, sat_prob, dissat_prob)

\* best_t (compiler.rs 1090-1111): all keys of a map carry the dissat_prob of
\* the request (the debug_assert of lines 985-987), so that filter is vacuous
best_t(values, sat_prob, dissat_prob) ==
    LET keep(e) == e.ms.ty.corr.base = "B"
    IN  MinByCost(values, keep, sat_prob, dissat_prob)

\* best_e (compiler.rs 1114-1137)
best_e(values, sat_prob, dissat_prob) ==
    LET keep(e) == /\ e.ms.ty.corr.base = "B"
                   /\ e.ms.ty.corr.unit
                   /\ e.ms.ty.mall.dissat = "Unique"
    IN  MinByCost(values, keep, sat_prob, dissat_prob)

\* best_w with the base type of best_e
best_w_base_b(values, sat_prob, dissat_prob) ==
    LET keep(e) == /\ e.ms.ty.corr.base = "B"
                   /\ e.ms.ty.corr.unit
                   /\ e.ms.ty.mall.dissat = "Unique"
    IN  MinByCost(values, keep, sat_prob, dissat_prob)

\* best_w (compiler.rs 1140-1163)
best_w(values, sat_prob, dissat_prob) ==
    LET keep(e) == /\ e.ms.ty.corr.base = "W"
                   /\ e.ms.ty.corr.unit
                   /\ e.ms.ty.mall.dissat = "Unique"
    IN  MinByCost(values, keep, sat_prob, dissat_prob)

(***************************************************************************)
(* best_compilations (compiler.rs 740-1000).  The policy cache is a        *)
(* function from requests to candidate maps.                               *)
(***************************************************************************)

Cached(cache, req) == req \in DOMAIN cache

\* Some(dissat_prob.unwrap_or(0) + w * sat_prob)
DissatPlus(dissat_prob, w, sat_prob) ==
    (IF dissat_prob = None THEN 0 ELSE dissat_prob) + Mul(w, sat_prob)

\* both branches of an Or weighted one half, whatever their weights
OrWeightEven(policy, i) == Scale \div 2

\* the weight of branch i of an Or among its first two branches
OrWeight(policy, i) ==
    (policy.weights[i] * Scale) \div (policy.weights[1] + policy.weights[2])

\* the requests of the and-or part of the Or arm whose And is branch i and
\* whose other branch is j (compiler.rs 841-859, 863-881)
AndOrRequests(req, i, j) ==
    LET x == req.policy.subs[i].subs
        wi == OrWeight(req.policy, i)
        wj == OrWeight(req.policy, j)
        sp == Mul(wi, req.sat_prob)
        dp == DissatPlus(req.dissat_prob, wj, req.sat_prob)
    IN  <<Request(x[1], sp, dp), Request(x[1], sp, None),
          Request(x[2], sp, dp), Request(x[2], sp, None),
          Request(req.policy.subs[j], Mul(wj, req.sat_prob), req.dissat_prob)>>

\* the closure dissat_probs of the Or arm (compiler.rs 883-890)
dissat_probs(req, w) ==
    <<DissatPlus(req.dissat_prob, w, req.sat_prob), Mul(w, req.sat_prob),
      req.dissat_prob, None>>

\* l_comp (i = 1, j = 2) and r_comp (i = 2, j = 1) of the Or arm
CompRequests(req, i, j) ==
    LET ds == dissat_probs(req, OrWeight(req.policy, j))
    IN  [d \in 1..4 |-> Request(req.policy.subs[i],
                                Mul(OrWeight(req.policy, i), req.sat_prob), ds[d])]

IsAndOr(policy, i) == policy.subs[i].kind = "And"

\* the sub-policy request of the Threshold arm (compiler.rs 933-937)
ThresholdRequest(req, i) ==
    LET n == Len(req.policy.subs)
        k_over_n == (req.policy.arg * Scale) \div n
    IN  Request(req.policy.subs[i], Mul(req.sat_prob, k_over_n),
                DissatPlus(req.dissat_prob, Scale - k_over_n, req.sat_prob))

\* a policy on which the arm aborts before it calls anything: the assert_eq
\* of line 812, the indexing of lines 835-837 and 842, the indexing of
\* line 950 on an empty threshold
Malformed(policy) ==
    \/ policy.kind = "And" /\ Len(policy.subs) # 2
    \/ policy.kind = "Or" /\ Len(policy.subs) < 2
    \/ policy.kind = "Threshold" /\ Len(policy.subs) = 0

\* the recursive calls of one arm on the sub-policies, in program order
ChildRequests(req) ==
    LET p == req.policy
    IN  IF Malformed(p) THEN <<>>
        ELSE CASE p.kind = "And" ->
                    <<Request(p.subs[1], req.sat_prob, req.dissat_prob),
                      Request(p.subs[2], req.sat_prob, req.dissat_prob),
                      Request(p.subs[2], req.sat_prob, None),
                      Request(p.subs[1], req.sat_prob, None)>>
               [] p.kind = "Or" ->
                    (IF IsAndOr(p, 1) THEN AndOrRequests(req, 1, 2) ELSE <<>>)
                    \o (IF IsAndOr(p, 2) THEN AndOrRequests(req, 2, 1) ELSE <<>>)
                    \o CompRequests(req, 1, 2) \o CompRequests(req, 2, 1)
               [] p.kind = "Threshold" ->
                    [i \in 1..Len(p.subs) |-> ThresholdRequest(req, i)]
               [] OTHER -> <<>>

\* the result of one arm before the entries are inserted: status "ok" with
\* the fragments handed to insert_wrap in program order; "err" when a ?
\* returns early; "abort" when the arm panics
Arm(status, elems) == [status |-> status, elems |-> elems]

\* expect() on the Results of a constructor
Expect(results) ==
    IF \E i \in 1..Len(results) : ~results[i].ok THEN Arm("abort", <<>>)
    ELSE Arm("ok", [i \in 1..Len(results) |-> results[i].elem])

\* MiniscriptKey::to_pubkeyhash: the hash of a key, a value no key equals
to_pubkeyhash(pk) == 100 + pk

\* the terminals of the leaf arms (compiler.rs 799-810)
LeafTerminals(policy) ==
    CASE policy.kind = "Key" -> <<Terminal("pk_h", to_pubkeyhash(policy.arg), <<>>),
                                  Terminal("pk", policy.arg, <<>>)>>
      [] policy.kind = "After" -> <<Terminal("after", policy.arg, <<>>)>>
      [] policy.kind = "Older" -> <<Terminal("older", policy.arg, <<>>)>>
      [] policy.kind = "Sha256" -> <<Terminal("sha256", policy.arg, <<>>)>>

\* AstElemExt::terminal of each, whose expect may abort
Terminals(ts) == Expect([i \in 1..Len(ts) |-> terminal(ts[i])])

\* one compile_binary or compile_tern call of an arm
Compile(op, a, b, c, weights) ==
    [op |-> op, a |-> a, b |-> b, c |-> c, weights |-> weights]

\* the compile calls of the And arm (compiler.rs 818-832); vs are the values
\* of left, right, q_zero_right, q_zero_left
AndCompiles(vs, zero_comp) ==
    <<Compile("and_b", vs[1], vs[2], <<>>, <<Scale, Scale>>),
      Compile("and_b", vs[2], vs[1], <<>>, <<Scale, Scale>>),
      Compile("and_v", vs[1], vs[2], <<>>, <<Scale, Scale>>),
      Compile("and_v", vs[2], vs[1], <<>>, <<Scale, Scale>>),
      Compile("andor", vs[1], vs[3], zero_comp, <<Scale, 0>>),
      Compile("andor", vs[2], vs[4], zero_comp, <<Scale, 0>>)>>

\* the compile_tern calls of one and-or part of the Or arm (compiler.rs
\* 860-861, 882-883); vs are the values of a1, a2, b1, b2, c
AndOrCompiles(vs, weights) ==
    <<Compile("andor", vs[1], vs[4], vs[5], weights),
      Compile("andor", vs[3], vs[2], vs[5], weights)>>

\* the compile_binary calls of the Or arm (compiler.rs 907-921)
OrCompiles(l_comp, r_comp, lw, rw) ==
    <<Compile("or_b", l_comp[1], r_comp[1], <<>>, <<lw, rw>>),
      Compile("or_b", r_comp[1], l_comp[1], <<>>, <<rw, lw>>),
      Compile("or_d", l_comp[1], r_comp[3], <<>>, <<lw, rw>>),
      Compile("or_d", r_comp[1], l_comp[3], <<>>, <<rw, lw>>),
      Compile("or_c", l_comp[2], r_comp[4], <<>>, <<lw, rw>>),
      Compile("or_c", r_comp[2], l_comp[4], <<>>, <<rw, lw>>),
      Compile("or_i", l_comp[3], r_comp[4], <<>>, <<lw, rw>>),
      Compile("or_i", r_comp[3], l_comp[4], <<>>, <<rw, lw>>),
      Compile("or_i", l_comp[4], r_comp[3], <<>>, <<lw, rw>>),
      Compile("or_i", r_comp[4], l_comp[3], <<>>, <<rw, lw>>)>>

\* the Or arm with the compile_binary calls made only when neither branch
\* is an And
OrArmCompilesExclusive(p, vs, n1, n2) ==
    (IF n1 > 0
     THEN AndOrCompiles(SubSeq(vs, 1, 5), <<OrWeight(p, 1), OrWeight(p, 2)>>)
     ELSE <<>>)
    \o (IF n2 > 0
        THEN AndOrCompiles(SubSeq(vs, n1 + 1, n1 + 5), <<OrWeight(p, 2), OrWeight(p, 1)>>)
        ELSE <<>>)
    \o (IF n1 + n2 = 0
        THEN OrCompiles(SubSeq(vs, 1, 4), SubSeq(vs, 5, 8), OrWeight(p, 1), OrWeight(p, 2))
        ELSE <<>>)

\* the compile calls of the Or arm (compiler.rs 834-922); vs are the values
\* of the maps of ChildRequests
OrArmCompiles(p, vs, n1, n2) ==
    (IF n1 > 0
     THEN AndOrCompiles(SubSeq(vs, 1, 5), <<OrWeight(p, 1), OrWeight(p, 2)>>)
     ELSE <<>>)
    \o (IF n2 > 0
        THEN AndOrCompiles(SubSeq(vs, n1 + 1, n1 + 5), <<OrWeight(p, 2), OrWeight(p, 1)>>)
        ELSE <<>>)
    \o OrCompiles(SubSeq(vs, n1 + n2 + 1, n1 + n2 + 4),
                  SubSeq(vs, n1 + n2 + 5, n1 + n2 + 8),
                  OrWeight(p, 1), OrWeight(p, 2))

RECURSIVE Flatten(_, _)
Flatten(seqs, i) == IF i > Len(seqs) THEN <<>> ELSE seqs[i] \o Flatten(seqs, i + 1)

\* the fragments the compile calls hand to insert_best_wrapped, in order
Compiled(cs) ==
    Arm("ok",
        Flatten([i \in 1..Len(cs) |->
                    IF cs[i].op = "andor"
                    THEN compile_tern(cs[i].a, cs[i].b, cs[i].c, cs[i].weights)
                    ELSE compile_binary(cs[i].a, cs[i].b, cs[i].weights, cs[i].op)], 1))

\* the first sub-policy compiled as E whatever the costs
min_value_first(bes, bws, r) == 1

\* the index of the sub-policy compiled as E (compiler.rs 932, 939-946): the
\* first whose cost as E less its cost as W is least
min_value(bes, bws, r) ==
    LET diff(i) == cost_1d(bes[i][1], r.sat_prob, r.dissat_prob)
                     - cost_1d(bws[i][1], r.sat_prob, r.dissat_prob)
    IN  CHOOSE i \in 1..Len(bes) :
            /\ \A j \in 1..Len(bes) : diff(i) <= diff(j)
            /\ \A j \in 1..(i - 1) : diff(j) > diff(i)

\* sub_ast and sub_ext_data (compiler.rs 950-957)
ThresholdSubs(bes, bws, m) ==
    [i \in 1..Len(bes) |->
        IF i = 1 THEN bes[m][1] ELSE IF i <= m THEN bws[i - 1][1] ELSE bws[i][1]]

\* the Thresh fragment (compiler.rs 959-967)
ThreshFragment(k, subs) ==
    WithCompExt(
        from_ast(Terminal("thresh", k, [i \in 1..Len(subs) |-> subs[i].ms])),
        CompilerExtData_threshold(k, [i \in 1..Len(subs) |-> subs[i].comp_ext_data]))

\* the ThreshM offer (compiler.rs 969-981)
ThreshMOffer(p) ==
    IF (\A i \in 1..Len(p.subs) : p.subs[i].kind = "Key") /\ Len(p.subs) <= 20
    THEN <<terminal(Terminal("thresh_m", p.arg,
                             [i \in 1..Len(p.subs) |-> KeyLeaf(p.subs[i].arg)]))>>
    ELSE <<>>

\* the Threshold arm once best_e and best_w of every sub-policy are known;
\* a missing one returns Err with ? (compiler.rs 937-938)
ThresholdBest(p, bes, bws, r) ==
    IF \E i \in 1..Len(bes) : bes[i] = <<>> \/ bws[i] = <<>> THEN Arm("err", <<>>)
    ELSE Expect(<<ThreshFragment(p.arg,
                      ThresholdSubs(bes, bws, min_value(bes, bws, r)))>>
                \o ThreshMOffer(p))

\* the Threshold arm (compiler.rs 923-983); vs are the values of the maps of
\* the sub-policies, r the request made for each
ThresholdArm(p, vs, r) ==
    ThresholdBest(p,
        [i \in 1..Len(vs) |-> best_e(vs[i], r.sat_prob, r.dissat_prob)],
        [i \in 1..Len(vs) |-> best_w(vs[i], r.sat_prob, r.dissat_prob)],
        r)

\* the match of best_compilations over the policy (compiler.rs 798-983); vs
\* are the values, in iteration order, of the maps of ChildRequests
PolicyArm(req, vs) ==
    IF Malformed(req.policy) THEN Arm("abort", <<>>)
    ELSE CASE req.policy.kind \in {"And", "Or"} ->
                Compiled(
                    IF req.policy.kind = "And"
                    THEN AndCompiles(vs, <<terminal(Terminal("false", 0, <<>>)).elem>>)
                    ELSE OrArmCompiles(req.policy, vs,
                             IF IsAndOr(req.policy, 1) THEN 5 ELSE 0,
                             IF IsAndOr(req.policy, 2) THEN 5 ELSE 0))
           [] req.policy.kind = "Threshold" ->
                ThresholdArm(req.policy, vs, ThresholdRequest(req, 1))
           [] OTHER -> Terminals(LeafTerminals(req.policy))

\* the request insert_best_wrapped makes when dissat_prob is Some
\* the call of line 727 made on another policy
SelfOther(req) == Request(Key(1), req.sat_prob, None)

SelfNone(req) == Request(req.policy, req.sat_prob, None)

\* what a running best_compilations(req) does next: kind "call" with the
\* request it calls itself on, "abort", "err", or "ok" with the fragments of
\* its arm
Step(kind, req, elems) == [kind |-> kind, req |-> req, elems |-> elems]

\* after the arm: the call insert_best_wrapped makes on a cache miss
\* (compiler.rs 727) once the arm hands it a fragment
ArmStep(req, cache, arm) ==
    IF arm.status # "ok" THEN Step(arm.status, req, <<>>)
    ELSE IF /\ req.dissat_prob # None
            /\ arm.elems # <<>>
            /\ ~Cached(cache, SelfNone(req))
    THEN Step("call", SelfNone(req), <<>>)
    ELSE Step("ok", req, arm.elems)

\* the calls on sub-policies come first, in program order
NextStep(req, cache, seed, rs) ==
    IF \E i \in 1..Len(rs) : ~Cached(cache, rs[i])
    THEN Step("call", rs[CHOOSE i \in 1..Len(rs) :
                            /\ ~Cached(cache, rs[i])
                            /\ \A j \in 1..(i - 1) : Cached(cache, rs[j])], <<>>)
    ELSE ArmStep(req, cache,
                 PolicyArm(req, [i \in 1..Len(rs) |-> Values(cache[rs[i]], seed)]))

\* best_compilations (compiler.rs 740-1000) on a cache miss, up to its next
\* call that misses the cache or to the end of its arm
best_compilations(req, cache, seed) == NextStep(req, cache, seed, ChildRequests(req))

\* ret filled with dissat_prob None whatever the request
RetNone(req, elems, wrapped) ==
    insert_best_wrapped(EmptyMap, elems, wrapped, req.sat_prob, None)

\* the map ret after the arm (compiler.rs 798-983)
Ret(req, elems, wrapped) ==
    insert_best_wrapped(EmptyMap, elems, wrapped, req.sat_prob, req.dissat_prob)

\* the checks of best_compilation without the one on safe
top_level_check_no_safe(x) ==
    IF ~x.ty.mall.non_malleable
    THEN [status |-> "ImpossibleNonMalleableCompilation", fragment |-> <<>>]
    ELSE [status |-> "Ok", fragment |-> <<x>>]

\* best_compilation after best_t returned x (compiler.rs 1080-1086)
top_level_check(x) ==
    IF ~x.ty.mall.safe THEN [status |-> "TopLevelNonSafe", fragment |-> <<>>]
    ELSE IF ~x.ty.mall.non_malleable
    THEN [status |-> "ImpossibleNonMalleableCompilation", fragment |-> <<>>]
    ELSE [status |-> "Ok", fragment |-> <<x>>]

\* best_compilation returning what best_t found, unchecked
best_compilation_unchecked(best) ==
    IF best = <<>> THEN [status |-> "MaxOpCountExceeded", fragment |-> <<>>]
    ELSE [status |-> "Ok", fragment |-> <<best[1].ms>>]

\* best_compilation (compiler.rs 1075-1087) once best_compilations returned:
\* best_t is <<>> or <<x>>
best_compilation(best) ==
    IF best = <<>> THEN [status |-> "MaxOpCountExceeded", fragment |-> <<>>]
    ELSE top_level_check(best[1].ms)

(***************************************************************************)
(* Liftable: the abstract policy of a Miniscript and of a concrete policy. *)
(***************************************************************************)

Semantic(kind, arg, subs) == [kind |-> kind, arg |-> arg, subs |-> subs]

\* an And or Or over normalized subs: nested nodes of the same kind are
\* spliced in, the neutral element is dropped, the absorbing one wins
Collapse(kind, ns, neutral, absorbing) ==
    LET flat == Flatten([i \in 1..Len(ns) |->
                            IF ns[i].kind = neutral THEN <<>>
                            ELSE IF ns[i].kind = kind THEN ns[i].subs
                            ELSE <<ns[i]>>], 1)
    IN  IF \E i \in 1..Len(ns) : ns[i].kind = absorbing
        THEN Semantic(absorbing, 0, <<>>)
        ELSE IF Len(flat) = 0 THEN Semantic(neutral, 0, <<>>)
        ELSE IF Len(flat) = 1 THEN flat[1]
        ELSE Semantic(kind, 0, flat)

\* Semantic::normalized
RECURSIVE normalized(_)
normalized(p) ==
    CASE p.kind = "And" ->
           Collapse("And", [i \in 1..Len(p.subs) |-> normalized(p.subs[i])],
                    "Trivial", "Unsatisfiable")
      [] p.kind = "Or" ->
           Collapse("Or", [i \in 1..Len(p.subs) |-> normalized(p.subs[i])],
                    "Unsatisfiable", "Trivial")
      [] OTHER -> p

\* the bag of the elements of a sequence
BagOf(seq) ==
    [x \in {seq[i] : i \in 1..Len(seq)} |->
        Cardinality({i \in 1..Len(seq) : seq[i] = x})]

\* Semantic::sorted: the subs of every node in sorted order; two sorted
\* sequences are equal exactly when their bags are, so the subs are kept as
\* a bag
RECURSIVE sorted(_)
sorted(p) ==
    Semantic(p.kind, p.arg, BagOf([i \in 1..Len(p.subs) |-> sorted(p.subs[i])]))

\* Liftable for Miniscript: wrappers are transparent, pk and pk_h lift to
\* the hash of the key
RECURSIVE Miniscript_lift(_)
Miniscript_lift(ms) ==
    LET op == ms.node.op
        sub(i) == Miniscript_lift(ms.node.subs[i])
        n == Len(ms.node.subs)
    IN  normalized(
          CASE op = "pk" -> Semantic("KeyHash", to_pubkeyhash(ms.node.arg), <<>>)
            [] op = "pk_h" -> Semantic("KeyHash", ms.node.arg, <<>>)
            [] op = "after" -> Semantic("After", ms.node.arg, <<>>)
            [] op = "older" -> Semantic("Older", ms.node.arg, <<>>)
            [] op = "sha256" -> Semantic("Sha256", ms.node.arg, <<>>)
            [] op = "true" -> Semantic("Trivial", 0, <<>>)
            [] op = "false" -> Semantic("Unsatisfiable", 0, <<>>)
            [] op \in {"a", "s", "c", "d", "v", "j", "n"} -> sub(1)
            [] op \in {"and_v", "and_b"} -> Semantic("And", 0, <<sub(1), sub(2)>>)
            [] op = "andor" ->
                 Semantic("Or", 0, <<Semantic("And", 0, <<sub(1), sub(2)>>), sub(3)>>)
            [] op \in {"or_b", "or_d", "or_c", "or_i"} ->
                 Semantic("Or", 0, <<sub(1), sub(2)>>)
            [] op \in {"thresh", "thresh_m"} ->
                 Semantic("Threshold", ms.node.arg, [i \in 1..n |-> sub(i)]))

\* Liftable for Concrete
RECURSIVE Concrete_lift(_)
Concrete_lift(p) ==
    normalized(
      CASE p.kind = "Key" -> Semantic("KeyHash", to_pubkeyhash(p.arg), <<>>)
        [] p.kind \in {"After", "Older", "Sha256"} -> Semantic(p.kind, p.arg, <<>>)
        [] OTHER -> Semantic(p.kind, p.arg,
                             [i \in 1..Len(p.subs) |-> Concrete_lift(p.subs[i])]))

(***************************************************************************)
(* The textual form of a Miniscript.  Text is a sequence of bytes.  The    *)
(* Display of a fragment and the expression parser are collaborators of    *)
(* mod.rs (miniscript::astelem, expression); Miniscript::from_str and      *)
(* from_tree are mod.rs 249-283.  Keys and hashes are numbers and print    *)
(* in decimal.                                                             *)
(***************************************************************************)

Lower ==
    <<"a", "b", "c", "d", "e", "f", "g", "h", "i", "j", "k", "l", "m",
      "n", "o", "p", "q", "r", "s", "t", "u", "v", "w", "x", "y", "z">>

\* the ASCII code of a character of the surface syntax
Byte(c) ==
    CASE c = "(" -> 40
      [] c = ")" -> 41
      [] c = "," -> 44
      [] c = ":" -> 58
      [] c = "_" -> 95
      [] c = "0" -> 48
      [] c = "1" -> 49
      [] c = "2" -> 50
      [] c = "5" -> 53
      [] c = "6" -> 54
      [] OTHER -> 96 + Index(Lower, c)

Str(chars) == [i \in 1..Len(chars) |-> Byte(chars[i])]

\* the name of a fragment kind in the surface syntax
NameOf(op) ==
    CASE op = "pk" -> Str(<<"p", "k">>)
      [] op = "pk_h" -> Str(<<"p", "k", "_", "h">>)
      [] op = "after" -> Str(<<"a", "f", "t", "e", "r">>)
      [] op = "older" -> Str(<<"o", "l", "d", "e", "r">>)
      [] op = "sha256" -> Str(<<"s", "h", "a", "2", "5", "6">>)
      [] op = "true" -> Str(<<"1">>)
      [] op = "false" -> Str(<<"0">>)
      [] op = "and_v" -> Str(<<"a", "n", "d", "_", "v">>)
      [] op = "and_b" -> Str(<<"a", "n", "d", "_", "b">>)
      [] op = "and_n" -> Str(<<"a", "n", "d", "_", "n">>)
      [] op = "andor" -> Str(<<"a", "n", "d", "o", "r">>)
      [] op = "or_b" -> Str(<<"o", "r", "_", "b">>)
      [] op = "or_d" -> Str(<<"o", "r", "_", "d">>)
      [] op = "or_c" -> Str(<<"o", "r", "_", "c">>)
      [] op = "or_i" -> Str(<<"o", "r", "_", "i">>)
      [] op = "thresh" -> Str(<<"t", "h", "r", "e", "s", "h">>)
      [] op = "thresh_m" -> Str(<<"t", "h", "r", "e", "s", "h", "_", "m">>)

\* the decimal digits of a number
RECURSIVE Decimal(_)
Decimal(n) ==
    IF n < 10 THEN <<48 + n>> ELSE Append(Decimal(n \div 10), 48 + (n % 10))

\* Terminal::wrap_char: the wrapper character of a node and the fragment it
\* wraps, <<>> when the node is not a wrapper
wrap_char(node) ==
    CASE node.op \in {"a", "s", "c", "d", "v", "j", "n"} ->
             <<Byte(node.op), node.subs[1]>>
      [] node.op = "and_v" /\ node.subs[2].node.op = "true" ->
             <<Byte("t"), node.subs[1]>>
      [] node.op = "or_i" /\ node.subs[1].node.op = "false" ->
             <<Byte("l"), node.subs[2]>>
      [] node.op = "or_i" /\ node.subs[2].node.op = "false" ->
             <<Byte("u"), node.subs[1]>>
      [] OTHER -> <<>>

\* xs[1], xs[2], ... joined with commas, from item i on
RECURSIVE Joined(_, _)
Joined(xs, i) ==
    IF i > Len(xs) THEN <<>>
    ELSE (IF i > 1 THEN <<44>> ELSE <<>>) \o xs[i] \o Joined(xs, i + 1)

\* name(arg, ...)
Applied(name, args) == NameOf(name) \o <<40>> \o Joined(args, 1) \o <<41>>

\* Display for Miniscript (mod.rs 111-115) and for its node
RECURSIVE Display(_)
Display(ms) ==
    LET node == ms.node
        sub(i) == Display(node.subs[i])
        w == wrap_char(node)
    IN  CASE node.op \in {"true", "false"} -> NameOf(node.op)
          [] node.op \in {"pk", "pk_h", "after", "older", "sha256"} ->
                 Applied(node.op, <<Decimal(node.arg)>>)
          [] node.op = "thresh_m" ->
                 Applied("thresh_m",
                         <<Decimal(node.arg)>>
                            \o [i \in 1..Len(node.subs) |-> Decimal(node.subs[i].node.arg)])
          [] node.op = "thresh" ->
                 Applied("thresh",
                         <<Decimal(node.arg)>> \o [i \in 1..Len(node.subs) |-> sub(i)])
          [] node.op = "andor" /\ node.subs[3].node.op = "false" ->
                 Applied("and_n", <<sub(1), sub(2)>>)
          [] w # <<>> ->
                 <<w[1]>> \o (IF wrap_char(w[2].node) = <<>> THEN <<58>> ELSE <<>>)
                    \o Display(w[2])
          [] OTHER -> Applied(node.op, [i \in 1..Len(node.subs) |-> sub(i)])

\* an error of the parsers
Err(e) == [ok |-> FALSE, err |-> e]

\* the first position from i on of a byte that ends a name
RECURSIVE NameEnd(_, _)
NameEnd(s, i) ==
    IF i > Len(s) \/ s[i] \in {40, 41, 44} THEN i ELSE NameEnd(s, i + 1)

\* expression::Tree: a name and the trees of its arguments
Tree(name, args) == [name |-> name, args |-> args]

\* the recursive descent of expression::Tree::from_str from position i: the
\* tree read and the position after it
RECURSIVE Tree_from_slice(_, _)
RECURSIVE Tree_args(_, _)
Tree_from_slice(s, i) ==
    LET j == NameEnd(s, i)
        a == Tree_args(s, j + 1)
    IN  IF j <= Len(s) /\ s[j] = 40
        THEN [ok |-> a.ok, tree |-> Tree(SubSeq(s, i, j - 1), a.args), next |-> a.next]
        ELSE [ok |-> TRUE, tree |-> Tree(SubSeq(s, i, j - 1), <<>>), next |-> j]

Tree_args(s, i) ==
    LET t == Tree_from_slice(s, i)
        rest == Tree_args(s, t.next + 1)
    IN  IF ~t.ok \/ t.next > Len(s) \/ s[t.next] \notin {41, 44}
        THEN [ok |-> FALSE, args |-> <<>>, next |-> t.next]
        ELSE IF s[t.next] = 41
        THEN [ok |-> TRUE, args |-> <<t.tree>>, next |-> t.next + 1]
        ELSE [ok |-> rest.ok, args |-> <<t.tree>> \o rest.args, next |-> rest.next]

\* expression::Tree::from_str: the whole text is one tree
Tree_from_str(s) ==
    LET t == Tree_from_slice(s, 1)
    IN  IF t.ok /\ t.next = Len(s) + 1 THEN [ok |-> TRUE, tree |-> t.tree]
        ELSE Err("Expression")

\* expression::parse_num and FromStr of a key: a decimal number
RECURSIVE DigitsValue(_)
DigitsValue(s) ==
    IF s = <<>> THEN 0
    ELSE 10 * DigitsValue(SubSeq(s, 1, Len(s) - 1)) + (s[Len(s)] - 48)

parse_num(s) ==
    IF s # <<>> /\ \A i \in 1..Len(s) : s[i] \in 48..57
    THEN [ok |-> TRUE, num |-> DigitsValue(s)]
    ELSE Err("Expression")

\* expression::terminal: a tree without arguments read as a number
Terminal_num(t) == IF t.args = <<>> THEN parse_num(t.name) ELSE Err("Expression")

\* the positions of the colons of a name
Colons(name) == {i \in 1..Len(name) : name[i] = 58}

\* from_ast with the error it returns
Checked(t) ==
    LET m == from_ast(t)
    IN  IF m.ok THEN [ok |-> TRUE, ms |-> m.ms] ELSE Err("TypeCheck")

\* the node a wrapper character makes of x
WrapNode(ch, x) ==
    CASE ch \in {Byte("a"), Byte("s"), Byte("c"), Byte("d"),
                 Byte("v"), Byte("j"), Byte("n")} ->
             [ok |-> TRUE, node |-> Terminal(Lower[ch - 96], 0, <<x>>)]
      [] ch = Byte("t") -> [ok |-> TRUE, node |-> Terminal("and_v", 0, <<x, TrueMs>>)]
      [] ch = Byte("u") -> [ok |-> TRUE, node |-> Terminal("or_i", 0, <<x, FalseMs>>)]
      [] ch = Byte("l") -> [ok |-> TRUE, node |-> Terminal("or_i", 0, <<FalseMs, x>>)]
      [] OTHER -> Err("UnknownWrapper")

\* the wrappers of a name applied to a terminal, the last character first
RECURSIVE Wrapped(_, _)
RECURSIVE WrappedOn(_, _)
Wrapped(wrap, unwrapped) ==
    IF wrap = <<>> \/ ~unwrapped.ok THEN unwrapped
    ELSE WrappedOn(wrap, Checked(unwrapped.node))

WrappedOn(wrap, inner) ==
    IF ~inner.ok THEN inner
    ELSE Wrapped(SubSeq(wrap, 1, Len(wrap) - 1), WrapNode(wrap[Len(wrap)], inner.ms))

\* the operator of a list whose name is frag_name, "" if there is none
Named(frag_name, ops) ==
    IF \E op \in ops : frag_name = NameOf(op)
    THEN CHOOSE op \in ops : frag_name = NameOf(op)
    ELSE ""

\* a fragment of the given Miniscripts
Nary(op, arg, subs) ==
    IF \A i \in 1..Len(subs) : subs[i].ok
    THEN [ok |-> TRUE, node |-> Terminal(op, arg, [i \in 1..Len(subs) |-> subs[i].ms])]
    ELSE Err("TypeCheck")

\* FromTree for Terminal: the node of a name without wrappers, from its
\* arguments read as numbers (nums) and as Miniscripts (subs)
Unwrapped(frag_name, n, nums, subs) ==
    CASE Named(frag_name, {"pk", "pk_h", "after", "older", "sha256"}) # "" /\ n = 1 ->
             IF nums[1].ok
             THEN [ok |-> TRUE,
                   node |-> Terminal(Named(frag_name, {"pk", "pk_h", "after", "older", "sha256"}),
                                     nums[1].num, <<>>)]
             ELSE Err("Expression")
      [] Named(frag_name, {"true", "false"}) # "" /\ n = 0 ->
             [ok |-> TRUE, node |-> Terminal(Named(frag_name, {"true", "false"}), 0, <<>>)]
      [] Named(frag_name, {"and_v", "and_b", "or_b", "or_d", "or_c", "or_i"}) # "" /\ n = 2 ->
             Nary(Named(frag_name, {"and_v", "and_b", "or_b", "or_d", "or_c", "or_i"}), 0, subs)
      [] frag_name = NameOf("andor") /\ n = 3 -> Nary("andor", 0, subs)
      [] frag_name = NameOf("and_n") /\ n = 2 ->
             Nary("andor", 0, subs \o <<[ok |-> TRUE, ms |-> FalseMs]>>)
      [] frag_name = NameOf("thresh") /\ n >= 1 ->
             IF ~nums[1].ok THEN Err("Expression")
             ELSE Nary("thresh", nums[1].num, Tail(subs))
      [] frag_name = NameOf("thresh_m") /\ n >= 1 ->
             IF \E i \in 1..n : ~nums[i].ok THEN Err("Expression")
             ELSE [ok |-> TRUE,
                   node |-> Terminal("thresh_m", nums[1].num,
                                     [i \in 1..(n - 1) |-> KeyLeaf(nums[i + 1].num)])]
      [] OTHER -> Err("Unexpected")

\* the type check that ends from_tree (mod.rs 251-255)
Finished(inner) == IF ~inner.ok THEN inner ELSE Checked(inner.node)

\* the name split after position split into wrappers and fragment name
FromSplit(name, split, nums, subs) ==
    Finished(Wrapped(SubSeq(name, 1, split - 1),
                     Unwrapped(SubSeq(name, split + 1, Len(name)), Len(subs), nums, subs)))

\* a name with at most one colon
FromName(name, colons, nums, subs) ==
    IF Cardinality(colons) > 1 THEN Err("MultiColon")
    ELSE FromSplit(name, IF colons = {} THEN 0 ELSE Min(colons), nums, subs)

\* FromTree for Terminal and for Miniscript (mod.rs 249-256): the node of
\* the tree with its wrappers, type-checked
RECURSIVE Miniscript_from_tree(_)
Miniscript_from_tree(top) ==
    FromName(top.name, Colons(top.name),
             [i \in 1..Len(top.args) |-> Terminal_num(top.args[i])],
             [i \in 1..Len(top.args) |-> Miniscript_from_tree(top.args[i])])

\* the printable ASCII characters, 0x20 to 0x7e
printable(ch) == ch >= 32 /\ ch <= 126

\* the test of line 269 on a byte
passes(ch) == ~(ch < 20 \/ ch > 127)

\* lines 277-281 of from_str
TopLevel(ms) ==
    IF ~ms.ok THEN ms
    ELSE IF ms.ms.ty.corr.base # "B" THEN Err("NonTopLevel")
    ELSE ms

\* lines 274-281 of from_str
Parsed(top) == IF ~top.ok THEN top ELSE TopLevel(Miniscript_from_tree(top.tree))

\* Miniscript::from_str (mod.rs 267-282) from the first byte the loop of
\* lines 268-272 rejects, if any
from_str_checked(s, bad) ==
    IF bad # {} THEN [ok |-> FALSE, err |-> "Unprintable", byte |-> s[Min(bad)]]
    ELSE Parsed(Tree_from_str(s))

from_str(s) == from_str_checked(s, {i \in 1..Len(s) : ~passes(s[i])})

(***************************************************************************)
(* The Script form of a Miniscript.  A Script is a sequence of tokens, an  *)
(* opcode or a push, each with its length in bytes.  Terminal::encode,     *)
(* Terminal::script_size, the lexer and the decoder are collaborators of   *)
(* mod.rs (miniscript::astelem, lex, decode); Miniscript::parse is mod.rs  *)
(* 130-144.                                                                *)
(***************************************************************************)

Op(name) == [t |-> name, v |-> 0]

Num(n) == [t |-> "num", v |-> n]

KeyPush(k) == [t |-> "key", v |-> k]

Hash20(h) == [t |-> "hash20", v |-> h]

Hash32(h) == [t |-> "hash32", v |-> h]

\* the bytes a token takes in the Script
TokenSize(tok) ==
    CASE tok.t = "num" -> script_num_size(tok.v)
      [] tok.t = "key" -> 34
      [] tok.t = "hash20" -> 21
      [] tok.t = "hash32" -> 33
      [] OTHER -> 1

RECURSIVE ScriptLen(_)
ScriptLen(script) ==
    IF script = <<>> THEN 0 ELSE TokenSize(Head(script)) + ScriptLen(Tail(script))

\* Builder::push_verify: the last opcode takes its VERIFY form if it has one
push_verify(script) ==
    LET n == Len(script)
    IN  IF n > 0 /\ script[n].t \in {"EQUAL", "CHECKSIG", "CHECKMULTISIG"}
        THEN [script EXCEPT ![n] =
                 Op(CASE script[n].t = "EQUAL" -> "EQUALVERIFY"
                      [] script[n].t = "CHECKSIG" -> "CHECKSIGVERIFY"
                      [] script[n].t = "CHECKMULTISIG" -> "CHECKMULTISIGVERIFY")]
        ELSE Append(script, Op("VERIFY"))

\* the encodings of subs[from], ..., each but the first followed by sep
RECURSIVE Chained(_, _, _)
Chained(xs, i, sep) ==
    IF i > Len(xs) THEN <<>>
    ELSE xs[i] \o (IF i > 1 THEN sep ELSE <<>>) \o Chained(xs, i + 1, sep)

\* Miniscript::encode (mod.rs 149-151) and Terminal::encode
RECURSIVE encode(_)
encode(ms) ==
    LET node == ms.node
        x == encode(node.subs[1])
        y == encode(node.subs[2])
        z == encode(node.subs[3])
    IN  CASE node.op = "pk" -> <<KeyPush(node.arg)>>
          [] node.op = "pk_h" ->
                 <<Op("DUP"), Op("HASH160"), Hash20(node.arg), Op("EQUALVERIFY")>>
          [] node.op = "after" -> <<Num(node.arg), Op("CLTV")>>
          [] node.op = "older" -> <<Num(node.arg), Op("CSV")>>
          [] node.op = "sha256" ->
                 <<Op("SIZE"), Num(32), Op("EQUALVERIFY"), Op("SHA256"),
                   Hash32(node.arg), Op("EQUAL")>>
          [] node.op = "true" -> <<Num(1)>>
          [] node.op = "false" -> <<Num(0)>>
          [] node.op = "a" -> <<Op("TOALTSTACK")>> \o x \o <<Op("FROMALTSTACK")>>
          [] node.op = "s" -> <<Op("SWAP")>> \o x
          [] node.op = "c" -> x \o <<Op("CHECKSIG")>>
          [] node.op = "d" -> <<Op("DUP"), Op("IF")>> \o x \o <<Op("ENDIF")>>
          [] node.op = "v" -> push_verify(x)
          [] node.op = "j" ->
                 <<Op("SIZE"), Op("0NOTEQUAL"), Op("IF")>> \o x \o <<Op("ENDIF")>>
          [] node.op = "n" -> x \o <<Op("0NOTEQUAL")>>
          [] node.op = "and_v" -> x \o y
          [] node.op = "and_b" -> x \o y \o <<Op("BOOLAND")>>
          [] node.op = "or_b" -> x \o y \o <<Op("BOOLOR")>>
          [] node.op = "or_d" ->
                 x \o <<Op("IFDUP"), Op("NOTIF")>> \o y \o <<Op("ENDIF")>>
          [] node.op = "or_c" -> x \o <<Op("NOTIF")>> \o y \o <<Op("ENDIF")>>
          [] node.op = "or_i" ->
                 <<Op("IF")>> \o x \o <<Op("ELSE")>> \o y \o <<Op("ENDIF")>>
          [] node.op = "andor" ->
                 x \o <<Op("NOTIF")>> \o z \o <<Op("ELSE")>> \o y \o <<Op("ENDIF")>>
          [] node.op = "thresh" ->
                 Chained([i \in 1..Len(node.subs) |-> encode(node.subs[i])], 1,
                         <<Op("ADD")>>)
                    \o <<Num(node.arg), Op("EQUAL")>>
          [] node.op = "thresh_m" ->
                 <<Num(node.arg)>>
                    \o [i \in 1..Len(node.subs) |-> KeyPush(node.subs[i].node.arg)]
                    \o <<Num(Len(node.subs)), Op("CHECKMULTISIG")>>

\* Miniscript::script_size (mod.rs 160-162) and Terminal::script_size
RECURSIVE script_size(_)
script_size(ms) ==
    LET node == ms.node
        n == Len(node.subs)
        x(i) == script_size(node.subs[i])
    IN  CASE node.op = "pk" -> 34
          [] node.op = "pk_h" -> 24
          [] node.op \in {"after", "older"} -> script_num_size(node.arg) + 1
          [] node.op = "sha256" -> 33 + 6
          [] node.op \in {"true", "false"} -> 1
          [] node.op = "a" -> x(1) + 2
          [] node.op \in {"s", "c", "n"} -> x(1) + 1
          [] node.op = "d" -> x(1) + 3
          [] node.op = "v" ->
                 x(1) + (IF node.subs[1].ext.has_verify_form THEN 0 ELSE 1)
          [] node.op = "j" -> x(1) + 4
          [] node.op = "and_v" -> x(1) + x(2)
          [] node.op \in {"and_b", "or_b"} -> x(1) + x(2) + 1
          [] node.op \in {"or_d", "or_i"} -> x(1) + x(2) + 3
          [] node.op = "or_c" -> x(1) + x(2) + 2
          [] node.op = "andor" -> x(1) + x(2) + x(3) + 3
          [] node.op = "thresh" ->
                 SumOpt([i \in 1..n |-> x(i)]) + (n - 1) + script_num_size(node.arg) + 1
          [] node.op = "thresh_m" ->
                 script_num_size(node.arg) + 34 * n + script_num_size(n) + 1

(***************************************************************************)
(* Fragments the text and Script forms are exercised on: the fragments of  *)
(* tests::all_attribute_tests and tests::basic (mod.rs 450-562), one of    *)
(* each kind, the nestings of and_v, and trees that do not type-check      *)
(* (tests::deserialize, mod.rs 653-674).                                   *)
(***************************************************************************)

\* a tree without types
Node(op, arg, subs) == [op |-> op, arg |-> arg, subs |-> subs]

Leaf(op, arg) == Node(op, arg, <<>>)

\* the tree of a wrapper chain such as "vc" applied to a tree
RECURSIVE Wrap(_, _)
Wrap(chars, x) ==
    IF chars = <<>> THEN x
    ELSE LET c == Head(chars)
             sub == Wrap(Tail(chars), x)
         IN  CASE c = "t" -> Node("and_v", 0, <<sub, Leaf("true", 0)>>)
               [] c = "l" -> Node("or_i", 0, <<Leaf("false", 0), sub>>)
               [] c = "u" -> Node("or_i", 0, <<sub, Leaf("false", 0)>>)
               [] OTHER -> Node(c, 0, <<sub>>)

CPk(k) == Wrap(<<"c">>, Leaf("pk", k))

VPk(k) == Wrap(<<"v", "c">>, Leaf("pk", k))

SPk(k) == Wrap(<<"s", "c">>, Leaf("pk", k))

ThreshM(k, n) == Node("thresh_m", k, [i \in 1..n |-> Leaf("pk", i)])

\* trees that type-check, of every base
WellTyped ==
    <<CPk(1), Wrap(<<"c">>, Leaf("pk_h", 5)), Leaf("after", 9), Leaf("older", 16),
      Leaf("sha256", 6), Leaf("true", 0), Leaf("false", 0), ThreshM(1, 2),
      Node("and_v", 0, <<VPk(1), CPk(2)>>),
      Node("and_v", 0, <<VPk(1), Node("and_v", 0, <<VPk(2), CPk(3)>>)>>),
      Node("and_v", 0, <<Node("and_v", 0, <<VPk(1), VPk(2)>>), CPk(3)>>),
      Wrap(<<"c">>, Node("and_v", 0, <<VPk(1), Leaf("pk", 2)>>)),
      Node("and_b", 0, <<CPk(1), SPk(2)>>),
      Node("or_b", 0, <<CPk(1), SPk(2)>>),
      Node("or_d", 0, <<CPk(1), CPk(2)>>),
      Wrap(<<"t">>, Node("or_c", 0, <<CPk(1), VPk(2)>>)),
      Node("or_i", 0, <<CPk(1), CPk(2)>>),
      Node("andor", 0, <<CPk(1), CPk(2), CPk(3)>>),
      Node("andor", 0, <<CPk(1), CPk(2), Leaf("false", 0)>>),
      Node("thresh", 2, <<CPk(1), SPk(2), SPk(3)>>),
      Wrap(<<"l", "l", "t", "v", "l", "n">>, Leaf("after", 1231488000)),
      Wrap(<<"j">>, Node("and_v", 0, <<Wrap(<<"v", "d", "v">>, Leaf("after", 1567547623)),
                                       Leaf("older", 2016)>>)),
      Wrap(<<"u", "u", "j">>, Node("and_v", 0, <<Wrap(<<"v">>, ThreshM(2, 2)),
                                                 Leaf("after", 1231488000)>>)),
      Node("or_b", 0, <<Wrap(<<"u", "n">>, ThreshM(2, 2)),
                        Wrap(<<"a", "l">>, Leaf("older", 16))>>),
      Node("or_d", 0, <<Leaf("sha256", 6),
                        Node("andor", 0, <<Wrap(<<"u", "n">>, Leaf("after", 499999999)),
                                           Leaf("older", 4194305), Leaf("false", 0)>>)>>),
      Wrap(<<"l">>, Leaf("false", 0)), Wrap(<<"l">>, Leaf("after", 9)),
      Leaf("pk", 1), Leaf("pk_h", 5), VPk(1), SPk(2), Wrap(<<"a">>, Leaf("after", 9)),
      Node("and_v", 0, <<VPk(1), VPk(2)>>), Node("or_c", 0, <<CPk(1), VPk(2)>>)>>

\* trees that do not type-check at the top
IllTyped ==
    <<Node("and_v", 0, <<Leaf("false", 0), Leaf("false", 0)>>),
      Wrap(<<"c">>, Leaf("after", 9)),
      Wrap(<<"v">>, VPk(1)),
      Leaf("after", 0),
      Node("thresh", 3, <<CPk(1), SPk(2)>>),
      Node("or_b", 0, <<CPk(1), CPk(2)>>)>>

\* the tree with the ty and ext of Miniscript::from_ast at every node
RECURSIVE Annotated(_)
Annotated(x) ==
    from_ast(Terminal(x.op, x.arg, [i \in 1..Len(x.subs) |-> Annotated(x.subs[i])])).ms

Samples == [i \in 1..(Len(WellTyped) + Len(IllTyped)) |-> Annotated((WellTyped \o IllTyped)[i])]

\* the trees of a list whose Script is script and that type-check, or do not
Preimages(trees, script, typed) ==
    {i \in 1..Len(trees) : encode(trees[i]) = script /\ from_ast(trees[i].node).ok = typed}

\* the longest end of tokens that is the Script of a tree of the list: the
\* number of tokens before it, or None
RECURSIVE TopStart(_, _, _)
TopStart(trees, tokens, skipped) ==
    IF skipped >= Len(tokens) THEN None
    ELSE IF \E i \in 1..Len(trees) :
                encode(trees[i]) = SubSeq(tokens, skipped + 1, Len(tokens))
    THEN skipped
    ELSE TopStart(trees, tokens, skipped + 1)

\* the tree decode::parse makes of the tokens, among those of a list: one
\* whose Script is the end of the tokens, a well-typed one if there is one
Decoding(trees, tokens, skipped, typed, untyped) ==
    IF skipped = None THEN Err("Unexpected")
    ELSE [ok |-> TRUE,
          top |-> trees[Min(IF typed # {} THEN typed ELSE untyped)],
          left |-> SubSeq(tokens, 1, skipped)]

Decoded_at(trees, tokens, skipped) ==
    Decoding(trees, tokens, skipped,
             Preimages(trees, SubSeq(tokens, skipped + 1, Len(tokens)), TRUE),
             Preimages(trees, SubSeq(tokens, skipped + 1, Len(tokens)), FALSE))

Decoded_in(trees, tokens) == Decoded_at(trees, tokens, TopStart(trees, tokens, 0))

\* decode::parse on the tokens of the lexer: the tree, and the tokens left
\* before it; an error when no tree is found
decode_parse(tokens) == Decoded_in(Samples, tokens)

\* Miniscript::parse with the test of lines 139-143 made before the one of
\* lines 136-138
parse_trailing_first(decoded) ==
    LET type_check == Type_type_check(decoded.top.node)
    IN  IF ~decoded.ok THEN decoded
        ELSE IF ~type_check.ok THEN Err("TypeCheck")
        ELSE IF decoded.left # <<>> THEN Err("Trailing")
        ELSE IF type_check.ty.corr.base # "B" THEN Err("NonTopLevel")
        ELSE [ok |-> TRUE, ms |-> decoded.top]

\* Miniscript::parse (mod.rs 130-144) once decode::parse returned
parse_decoded(decoded) ==
    LET type_check == Type_type_check(decoded.top.node)
    IN  IF ~decoded.ok THEN decoded
        ELSE IF ~type_check.ok THEN Err("TypeCheck")
        ELSE IF type_check.ty.corr.base # "B" THEN Err("NonTopLevel")
        ELSE IF decoded.left # <<>> THEN Err("Trailing")
        ELSE [ok |-> TRUE, ms |-> decoded.top]

parse(script) == parse_decoded(decode_parse(script))

(***************************************************************************)
(* The state machine: calls of best_compilation on one policy.             *)
(***************************************************************************)

\* the number of iteration orders a map may be walked in
NumOrders == 2

\* the number of calls of best_compilation on the policy
MaxCalls == 2

\* or(after(9), after(9)): every compilation is malleable
OrAfter == Or(<<1, 1>>, <<After(9), After(9)>>)

\* the policies of tests::compile_basic (compiler.rs 1214-1243), with keys
\* told apart, and values of the policy type the parser does not produce
Policies ==
    { Key(1), After(9), Older(1), Sha256(7),
      And(<<Key(1), Key(2)>>),
      Or(<<1, 1>>, <<Key(1), Key(2)>>),
      Threshold(2, <<Key(1), Key(2), Key(3)>>),
      Threshold(2, <<After(9), After(9), Key(1)>>),
      And(<<Key(1), OrAfter>>),
      OrAfter,
      And(<<Key(1), Key(2), Key(3)>>),
      Or(<<1, 1>>, <<Key(1)>>),
      Or(<<1, 1, 1>>, <<Key(1), Key(2), Key(3)>>),
      Threshold(2, <<>>),
      Threshold(4, <<Key(1), Key(2), Key(3)>>),
      After(0) }

VARIABLES
    policy,        \* the argument of best_compilation
    stack,         \* the active calls of best_compilations, innermost last
    policy_cache,  \* the memoization cache of the running call
    status,        \* "Idle", "Running", "Ok", a CompilerError, or "Abort"
    fragment,      \* <<x>> when the call returned Ok(x), else <<>>
    failed,        \* when a best_compilations returned Err: <<its request and
                   \* the fragments it handed to insert_elem_closure>>
    calls,         \* the number of calls of best_compilation made so far
    previous,      \* <<status, fragment>> of the call before this one
    map,           \* a candidate map insert_elem is called on
    probs,         \* the <<sat_prob, dissat_prob>> of the calls on map
    elem,          \* <<the fragment of the last insert_elem call>>
    inserted,      \* the bool that call returned
    before,        \* map before that call
    inserts,       \* the number of insert_elem calls on map so far
    cast_stack,    \* the queue of insert_elem_closure
    current,       \* <<the element popped from the queue>>
    next_cast,     \* the index of the for loop over the casts, from 1
    pc,            \* where insert_elem_closure is: "idle", "while", "for", "done"
    accepted,      \* the elements insert_elem returned true for in this call, in order
    tried,         \* the Result of the last cast in the for loop
    last,          \* the map and the bool the last insert_elem call left
    closures,      \* the number of insert_elem_closure calls on map so far
    subject,       \* the Miniscript value the text and Script forms are taken of
    called,        \* "none", or the parser called last: "from_str", "parse"
    input,         \* the bytes, or the tokens, that parser was called on
    outcome        \* the Result it returned

cvars == <<policy, stack, policy_cache, status, fragment, failed, calls, previous>>

ivars == <<map, probs, elem, inserted, before, inserts>>

qvars == <<cast_stack, current, next_cast, pc, accepted, tried, last, closures>>

kvars == <<subject, called, input, outcome>>

vars == <<cvars, ivars, qvars, kvars>>

\* no parser has been called
CodecIdle ==
    /\ subject = KeyLeaf(1)
    /\ called = "none"
    /\ input = <<>>
    /\ outcome = [ok |-> FALSE]

\* no insert_elem_closure call is made on map
ClosureIdle ==
    /\ cast_stack = <<>>
    /\ current = <<>>
    /\ next_cast = 0
    /\ pc = "idle"
    /\ accepted = <<>>
    /\ tried = [ok |-> FALSE]
    /\ last = [map |-> EmptyMap, inserted |-> FALSE]
    /\ closures = 0

\* no insert_elem call is made on map
InsertIdle ==
    /\ map = EmptyMap
    /\ probs = <<Scale, None>>
    /\ elem = <<>>
    /\ inserted = FALSE
    /\ before = EmptyMap
    /\ inserts = 0

Root == Request(policy, Scale, None)

Top == stack[Len(stack)]

Init ==
    /\ policy \in Policies
    /\ stack = <<>>
    /\ policy_cache = EmptyMap
    /\ status = "Idle"
    /\ fragment = <<>>
    /\ failed = <<>>
    /\ calls = 0
    /\ previous = <<>>
    /\ InsertIdle
    /\ ClosureIdle
    /\ CodecIdle

\* best_compilation is entered (compiler.rs 1078-1079): a fresh cache, and
\* best_t calls best_compilations(policy, 1.0, None)
Enter ==
    /\ status \notin {"Running", "Abort"}
    /\ calls < MaxCalls
    /\ previous' = IF calls = 0 THEN <<>> ELSE <<status, fragment>>
    /\ calls' = calls + 1
    /\ policy_cache' = EmptyMap
    /\ stack' = <<Root>>
    /\ status' = "Running"
    /\ fragment' = <<>>
    /\ failed' = <<>>
    /\ UNCHANGED <<policy, ivars, qvars, kvars>>

Push(step) ==
    /\ step.kind = "call"
    /\ stack' = Append(stack, step.req)

\* the running best_compilations calls itself on a request that misses the
\* cache (compiler.rs 752-757)
Call ==
    /\ status = "Running"
    /\ stack # <<>>
    /\ \E step \in {best_compilations(Top, policy_cache, 1)} : Push(step)
    /\ UNCHANGED <<policy, policy_cache, status, fragment, failed, calls, previous, ivars, qvars, kvars>>

\* the end of best_compilations (compiler.rs 985-999): Err on an empty map,
\* which every caller up to best_compilation passes on with ?; else the map
\* is stored in the cache and returned
Failure(req, candidates) == [req |-> req, candidates |-> candidates]

\* a candidate map with branch_prob Some(w) in every entry
Branched(m, w) == [k \in DOMAIN m |-> SetBranchProb(m[k], w)]

\* Store where the maps an And arm got from the cache are the cached maps
\* themselves: the branch_prob that compile_binary and compile_tern write
\* (weights 1.0 on both sides of an And) lands in the cache
StoreAliased(ret, elems, wrapped) ==
    IF ret = EmptyMap
    THEN /\ status' = "MaxOpCountExceeded"
         /\ stack' = <<>>
         /\ failed' = <<Failure(Top, <<>>)>>
         /\ UNCHANGED policy_cache
    ELSE /\ policy_cache' =
               [k \in DOMAIN policy_cache \cup {Top} |->
                   IF k = Top THEN ret
                   ELSE IF Top.policy.kind = "And"
                           /\ \E i \in 1..Len(ChildRequests(Top)) : ChildRequests(Top)[i] = k
                   THEN Branched(policy_cache[k], Scale)
                   ELSE policy_cache[k]]
         /\ stack' = SubSeq(stack, 1, Len(stack) - 1)
         /\ UNCHANGED <<status, failed>>

Store(ret, elems, wrapped) ==
    IF ret = EmptyMap
    THEN /\ status' = "MaxOpCountExceeded"
         /\ stack' = <<>>
         /\ failed' = <<Failure(Top, [j \in 1..(Len(elems) * (Len(wrapped) + 1)) |->
                                        ClosureCall(elems, wrapped, j)])>>
         /\ UNCHANGED policy_cache
    ELSE /\ policy_cache' = MapInsert(policy_cache, Top, ret)
         /\ stack' = SubSeq(stack, 1, Len(stack) - 1)
         /\ UNCHANGED <<status, failed>>

StoreRet(elems, wrapped) ==
    \E ret \in {Ret(Top, elems, wrapped)} : Store(ret, elems, wrapped)

Pop(step, seed) ==
    /\ step.kind # "call"
    /\ IF step.kind = "abort"
       THEN /\ status' = "Abort"
            /\ stack' = <<>>
            /\ UNCHANGED <<policy_cache, failed>>
       ELSE IF step.kind = "err"
       THEN /\ status' = "MaxOpCountExceeded"
            /\ stack' = <<>>
            /\ failed' = <<Failure(Top, <<>>)>>
            /\ UNCHANGED policy_cache
       ELSE StoreRet(step.elems,
                     IF Top.dissat_prob # None /\ step.elems # <<>>
                     THEN WrappedCandidates(Values(policy_cache[SelfNone(Top)], seed))
                     ELSE <<>>)

\* the innermost best_compilations runs to its end (compiler.rs 798-999),
\* walking the maps in the order of seed: it panics, or returns Err, or
\* returns its map
Return(seed) ==
    /\ status = "Running"
    /\ stack # <<>>
    /\ \E step \in {best_compilations(Top, policy_cache, seed)} : Pop(step, seed)
    /\ UNCHANGED <<policy, fragment, calls, previous, ivars, qvars, kvars>>

Result(r) ==
    /\ status' = r.status
    /\ fragment' = r.fragment

\* best_t picks the cheapest B entry and best_compilation checks it
\* (compiler.rs 1079-1086, 1102-1110)
Finish(seed) ==
    /\ status = "Running"
    /\ stack = <<>>
    /\ \E r \in {best_compilation(best_t(Values(policy_cache[Root], seed), Scale, None))} :
          Result(r)
    /\ UNCHANGED <<policy, stack, policy_cache, failed, calls, previous, ivars, qvars, kvars>>

Next ==
    \/ Enter
    \/ Call
    \/ \E seed \in 1..NumOrders : Return(seed)
    \/ \E seed \in 1..NumOrders : Finish(seed)

Spec == Init /\ [][Next]_vars

(***************************************************************************)
(* Properties of best_compilation, checked on Spec.                        *)
(***************************************************************************)

\* the call of best_compilation has returned
Returned ==
    status \in {"Ok", "TopLevelNonSafe", "ImpossibleNonMalleableCompilation",
                "MaxOpCountExceeded"}

\* C1: whenever best_compilation returns Ok(m), m has correctness base B, is
\* safe and is non-malleable, for every policy.
C1_OkIsSafeNonMalleableB ==
    status = "Ok" =>
        /\ Len(fragment) = 1
        /\ fragment[1].ty.corr.base = "B"
        /\ fragment[1].ty.mall.safe
        /\ fragment[1].ty.mall.non_malleable

\* a call that returned Ok for or(pk, pk)
C1_Witness == status = "Ok" /\ policy.kind = "Or" /\ fragment # <<>>

\* the entries of base B of the map of the root request that no other such
\* entry undercuts: what best_t may return
BestB ==
    LET m == policy_cache[Root]
        b == {k \in DOMAIN m : k.ty.corr.base = "B"}
    IN  {m[k].ms : k \in {k \in b : \A j \in b :
                             cost_1d(m[k], Scale, None) <= cost_1d(m[j], Scale, None)}}

\* C2: best_compilation checks the best B candidate in a fixed order: not
\* safe gives TopLevelNonSafe, also when it is malleable; else malleable
\* gives ImpossibleNonMalleableCompilation; else the fragment is returned.
C2_ChecksInOrder ==
    (Returned /\ Cached(policy_cache, Root) /\ BestB # {}) =>
        \E x \in BestB :
            IF ~x.ty.mall.safe
            THEN status = "TopLevelNonSafe" /\ fragment = <<>>
            ELSE IF ~x.ty.mall.non_malleable
            THEN status = "ImpossibleNonMalleableCompilation" /\ fragment = <<>>
            ELSE status = "Ok" /\ fragment = <<x>>

\* the best B candidate of a threshold was found not safe
C2_Witness ==
    /\ status = "TopLevelNonSafe"
    /\ policy.kind = "Threshold"
    /\ Cached(policy_cache, Root)
    /\ \E x \in BestB : ~x.ty.mall.safe

\* C3: for every value of the policy type, the call ends with a Miniscript
\* or one of the three errors; it never aborts.
C3_NeverAborts == status # "Abort"

NoSignaturePolicy ==
    \/ policy.kind \in {"After", "Older"} /\ policy.arg > 0
    \/ policy.kind = "Sha256"
    \/ policy = Threshold(2, <<After(9), After(9), Key(1)>>)

\* C5: compiling a policy that can be satisfied without any signature (a lone
\* After, Older or hash leaf, thresh(2, after, after, pk)) fails with
\* TopLevelNonSafe.
C5_NoSignatureIsNonSafe ==
    (NoSignaturePolicy /\ status \notin {"Idle", "Running"}) =>
        status = "TopLevelNonSafe" /\ fragment = <<>>

\* the call on a lone hash leaf has failed
C5_Witness == policy.kind = "Sha256" /\ status = "TopLevelNonSafe" /\ calls = 1

\* C6: for every policy p that compiles to a Miniscript m, the abstract
\* policy lifted from m equals the one lifted from p, both sorted.
C6_LiftPreserved ==
    status = "Ok" =>
        sorted(Miniscript_lift(fragment[1])) = sorted(Concrete_lift(policy))

C10_SameResult ==
    (calls >= 2 /\ status # "Running") => <<status, fragment>> = previous

(***************************************************************************)
(* insert_elem on its own: any sequence of calls on one map.               *)
(***************************************************************************)

\* the number of insert_elem calls on the map
MaxInserts == 3

\* terminals of the leaf arms and a thresh_m of twenty keys
InsertTerminals ==
    <<Terminal("pk", 1, <<>>), Terminal("pk_h", 101, <<>>),
      Terminal("after", 9, <<>>),
      Terminal("thresh_m", 20, [i \in 1..20 |-> KeyLeaf(i)])>>

InsertLeaves == OkElems([i \in 1..Len(InsertTerminals) |-> terminal(InsertTerminals[i])])

\* thresh(10, ...) over ten thresh_m of twenty keys each, as the Threshold
\* arm builds it: more than 201 opcodes
OverLimit ==
    OkElems(<<ThreshFragment(10,
                [i \in 1..10 |-> IF i = 1 THEN InsertLeaves[4]
                                 ELSE cast(9, InsertLeaves[4]).elem])>>)

\* fragments the compiler hands to insert_elem: leaves, their casts, the
\* or_i of pk_h and after leaves, and the thresh over the limit
Candidates ==
    LET all == InsertLeaves \o WrappedCandidates(InsertLeaves)
                 \o compile_binary(SubSeq(InsertLeaves, 2, 3), SubSeq(InsertLeaves, 2, 3),
                                   <<Scale \div 2, Scale \div 2>>, "or_i")
                 \o OverLimit
    IN  {all[i] : i \in 1..Len(all)}

\* sat_prob and dissat_prob of the map: no dissatisfaction, an even split,
\* and a dissatisfaction probability of zero
InsertProbs == {<<Scale, None>>, <<Scale \div 2, Scale \div 2>>, <<Scale, 0>>}

CompileIdle ==
    /\ policy = Key(1)
    /\ stack = <<>>
    /\ policy_cache = EmptyMap
    /\ status = "Idle"
    /\ fragment = <<>>
    /\ failed = <<>>
    /\ calls = 0
    /\ previous = <<>>

InitInsert ==
    /\ CompileIdle
    /\ map = EmptyMap
    /\ probs \in InsertProbs
    /\ elem = <<>>
    /\ inserted = FALSE
    /\ before = EmptyMap
    /\ inserts = 0
    /\ ClosureIdle
    /\ CodecIdle

Inserted(e, r) ==
    /\ map' = r.map
    /\ inserted' = r.inserted
    /\ elem' = <<e>>
    /\ before' = map

\* one call insert_elem(map, e, sat_prob, dissat_prob) (compiler.rs 626-667)
Insert(e) ==
    /\ inserts < MaxInserts
    /\ inserts' = inserts + 1
    /\ Inserted(e, insert_elem(map, e, probs[1], probs[2]))
    /\ UNCHANGED <<probs, cvars, qvars, kvars>>

NextInsert == \E e \in Candidates : Insert(e)

SpecInsert == InitInsert /\ [][NextInsert]_vars

Cost(e) == cost_1d(e, probs[1], probs[2])

\* C7: after any sequence of insert_elem calls on a map with the same
\* sat_prob and dissat_prob, the map holds no two distinct entries a and b
\* with a's key a subtype of b's key and cost(a) <= cost(b).
C7_ParetoMap ==
    \A a, b \in DOMAIN map :
        (a # b /\ CompilationKey_is_subtype(a, b)) => Cost(map[a]) > Cost(map[b])

\* an insert put in an entry of a new type and removed one it dominates,
\* other entries staying
C7_Witness ==
    /\ inserted
    /\ elem[1].ms.ty \notin {k.ty : k \in DOMAIN before}
    /\ \E k \in DOMAIN before : k \notin DOMAIN map
    /\ Cardinality(DOMAIN map) >= 2

\* every node of a fragment is non-malleable and within the opcode limit
RECURSIVE NodesAdmissible(_)
NodesAdmissible(ms) ==
    /\ ms.ty.mall.non_malleable
    /\ ms.ext.ops_count_sat = None \/ ms.ext.ops_count_sat <= MAX_OPS_PER_SCRIPT
    /\ \A i \in 1..Len(ms.node.subs) : NodesAdmissible(ms.node.subs[i])

Inadmissible(e) ==
    \/ ~e.ms.ty.mall.non_malleable
    \/ e.ms.ext.ops_count_sat # None /\ e.ms.ext.ops_count_sat > MAX_OPS_PER_SCRIPT

\* C8: every entry of a candidate map is, at every node, non-malleable with
\* ops_count_sat <= 201; insert_elem rejects a fragment that is malleable or
\* over the limit, leaving the map as it was.
C8_OnlyAdmissibleEntries ==
    /\ \A k \in DOMAIN map : NodesAdmissible(map[k].ms)
    /\ (elem # <<>> /\ Inadmissible(elem[1])) => (~inserted /\ map = before)

\* a non-malleable fragment over the limit was handed to a map with entries
C8_Witness ==
    /\ elem # <<>>
    /\ elem[1].ms.ty.mall.non_malleable
    /\ elem[1].ms.ext.ops_count_sat > MAX_OPS_PER_SCRIPT
    /\ map # EmptyMap
    /\ ~inserted

\* C17: cost_1d(sat_prob, dissat_prob) is pk_cost + sat_cost * sat_prob + D
\* with D = dissat_prob * dissat_cost when both are present, D infinite when
\* a dissat probability is given (even 0) and the fragment has no dissat
\* cost, and D = 0 whenever dissat_prob is None.
C17_Cost1d ==
    elem # <<>> =>
        LET e == elem[1]
            base == e.ms.ext.pk_cost * Scale + Mul(probs[1], e.comp_ext_data.sat_cost)
            dissat_cost == e.comp_ext_data.dissat_cost
        IN  /\ probs[2] = None => Cost(e) = base
            /\ (probs[2] # None /\ dissat_cost # None) =>
                   Cost(e) = base + Mul(probs[2], dissat_cost)
            /\ (probs[2] # None /\ dissat_cost = None) => Cost(e) >= Infinity

\* a fragment without a dissatisfaction cost was costed at dissat_prob 0
C17_Witness ==
    /\ elem # <<>>
    /\ probs[2] = 0
    /\ elem[1].comp_ext_data.dissat_cost = None
    /\ elem[1].comp_ext_data.sat_cost > 0

\* the key insert_elem files an element under (compiler.rs 644)
ElemKey(e) == CompilationKey_from_type(e.ms.ty, e.ms.ext.has_verify_form, probs[2])

\* an entry of the map m dominates e: its key is a subtype of e's key and
\* its cost is at most e's cost
Dominated(m, e) ==
    \E k \in DOMAIN m :
        CompilationKey_is_subtype(k, ElemKey(e)) /\ Cost(m[k]) <= Cost(e)

\* the call put the element it was handed into the map; an equal entry that
\* was there before the call is another element
Stored(e) ==
    /\ ElemKey(e) \in DOMAIN map
    /\ map[ElemKey(e)] = e
    /\ ~(ElemKey(e) \in DOMAIN before /\ before[ElemKey(e)] = e)

\* C18: insert_elem returns false and leaves the map unchanged when the
\* element is malleable, over the opcount limit or dominated by an existing
\* entry; on equal key and equal cost the existing entry is kept; it returns
\* true exactly when the element is in the map afterwards.
C18_InsertFrame ==
    elem # <<>> =>
        LET e == elem[1]
        IN  /\ (Inadmissible(e) \/ Dominated(before, e)) => (~inserted /\ map = before)
            /\ (/\ ElemKey(e) \in DOMAIN before
                /\ Cost(before[ElemKey(e)]) = Cost(e)) =>
                   (~inserted /\ map[ElemKey(e)] = before[ElemKey(e)])
            /\ inserted <=> Stored(e)
            /\ ~inserted => map = before

\* an admissible element met an entry of its own key and cost and lost, and
\* an earlier call had stored an element
C18_Witness ==
    /\ elem # <<>>
    /\ ~Inadmissible(elem[1])
    /\ ElemKey(elem[1]) \in DOMAIN before
    /\ Cost(before[ElemKey(elem[1])]) = Cost(elem[1])
    /\ ~inserted
    /\ map = before

(***************************************************************************)
(* insert_elem_closure step by step (compiler.rs 677-700): one action for  *)
(* the first insert, one for each pop of the queue, one for each turn of   *)
(* the for loop over the casts and one for the return.  Calls follow each  *)
(* other on the same map, as insert_best_wrapped makes them.               *)
(***************************************************************************)

\* the number of insert_elem_closure calls on the map
MaxClosures == 2

\* thresh(9, ...) over eight thresh_m of twenty keys and one of six, as the
\* Threshold arm builds it: 200 opcodes, one below the limit
NearLimit ==
    LET six == terminal(Terminal("thresh_m", 6, [i \in 1..6 |-> KeyLeaf(i)])).elem
    IN  OkElems(<<ThreshFragment(9,
                    [i \in 1..9 |-> IF i = 1 THEN InsertLeaves[4]
                                    ELSE IF i < 9 THEN cast(9, InsertLeaves[4]).elem
                                    ELSE cast(9, six).elem])>>)

\* the fragments the calls start from: the leaves of the insert_elem calls
\* but the thresh_m, a sha256 leaf and the thresh near the limit
ClosureStarts ==
    LET all == SubSeq(InsertLeaves, 1, 3)
                 \o OkElems(<<terminal(Terminal("sha256", 7, <<>>))>>)
                 \o NearLimit
    IN  {all[i] : i \in 1..Len(all)}

InitClosure ==
    /\ CompileIdle
    /\ map = EmptyMap
    /\ probs \in InsertProbs
    /\ elem = <<>>
    /\ inserted = FALSE
    /\ before = EmptyMap
    /\ inserts = 0
    /\ ClosureIdle
    /\ CodecIdle

\* insert_elem on e and the push_back under its bool (compiler.rs 684-686
\* and 694-696), onto the queue the pops so far have left
Offer(e, queue) ==
    /\ last' = insert_elem(map, e, probs[1], probs[2])
    /\ Inserted(e, last')
    /\ cast_stack' = Enqueue(Closure(map, queue), e, last').cast_stack

\* the call and its first insert (compiler.rs 683-688)
StartClosure(e) ==
    /\ pc \in {"idle", "done"}
    /\ closures < MaxClosures
    /\ closures' = closures + 1
    /\ Offer(e, <<>>)
    /\ accepted' = IF inserted' THEN <<e>> ELSE <<>>
    /\ current' = <<>>
    /\ next_cast' = 0
    /\ pc' = "while"
    /\ UNCHANGED <<probs, inserts, tried, cvars, kvars>>

\* the loop test and the pop (compiler.rs 689-690)
PopFront ==
    /\ pc = "while"
    /\ cast_stack # <<>>
    /\ current' = <<Head(cast_stack)>>
    /\ cast_stack' = pop_front(cast_stack)
    /\ next_cast' = 1
    /\ pc' = "for"
    /\ UNCHANGED <<ivars, accepted, tried, last, closures, cvars, kvars>>

\* one turn of the for loop (compiler.rs 692-698)
TryCast ==
    /\ pc = "for"
    /\ tried' = cast(next_cast, current[1])
    /\ IF tried'.ok
       THEN /\ Offer(tried'.elem, cast_stack)
            /\ accepted' = IF inserted' THEN Append(accepted, tried'.elem) ELSE accepted
       ELSE UNCHANGED <<map, elem, inserted, before, cast_stack, accepted, last>>
    /\ next_cast' = next_cast + 1
    /\ pc' = IF next_cast = NumCasts THEN "while" ELSE "for"
    /\ UNCHANGED <<probs, inserts, current, closures, cvars, kvars>>

\* the loop test fails and the function returns (compiler.rs 689, 700)
ReturnClosure ==
    /\ pc = "while"
    /\ cast_stack = <<>>
    /\ pc' = "done"
    /\ UNCHANGED <<ivars, cast_stack, current, next_cast, accepted, tried, last, closures, cvars, kvars>>

RunClosure == PopFront \/ TryCast \/ ReturnClosure

NextClosure == (\E e \in ClosureStarts : StartClosure(e)) \/ RunClosure

SpecClosure == InitClosure /\ [][NextClosure]_vars

\* a call that has started runs on: the loops are sequential code
SpecClosureFair == SpecClosure /\ WF_vars(RunClosure)

\* C19: insert_elem_closure terminates for every starting fragment and
\* every initial candidate map: the queue of elements whose casts remain to
\* be tried eventually becomes empty and the call returns.
C19_ClosureTerminates == (pc \in {"while", "for"}) ~> (pc = "done" /\ cast_stack = <<>>)

\* a call on a map that already holds entries popped a wrapped element
C19_Witness ==
    /\ pc = "for"
    /\ closures = 2
    /\ current[1].ms.node.op \notin {"pk", "pk_h", "after", "sha256", "thresh_m"}
    /\ cast_stack # <<>>

\* the casts of the elements the call inserted
CastsOfAccepted ==
    {cast(i, accepted[n]) : i \in 1..NumCasts, n \in 1..Len(accepted)}

\* q is the end of the sequence s
IsSuffix(q, s) ==
    /\ Len(q) <= Len(s)
    /\ q = SubSeq(s, Len(s) - Len(q) + 1, Len(s))

\* the last step of the call handed an element to insert_elem: the first
\* insert, or a turn of the for loop whose cast was type-valid
JustOffered ==
    \/ pc = "while" /\ next_cast = 0
    \/ next_cast > 1 /\ tried.ok

\* an element is in the queue exactly when insert_elem returned true for it
EnqueuedWhenInserted ==
    /\ IsSuffix(cast_stack, accepted)
    /\ JustOffered =>
          (inserted <=> (/\ cast_stack # <<>>
                         /\ cast_stack[Len(cast_stack)] = elem[1]
                         /\ accepted # <<>>
                         /\ accepted[Len(accepted)] = elem[1]))

\* C20 as stated: when insert_elem_closure returns, for every element e
\* inserted during the call and every cast that is type-valid on e, the map
\* holds an entry whose key is a subtype of the key of cast(e) and whose cost
\* is <= the cost of cast(e); an element is enqueued exactly when
\* insert_elem returned true for it.
C20_ClosedUnderCasts ==
    /\ pc = "done" => \A c \in CastsOfAccepted : c.ok => Dominated(map, c.elem)
    /\ EnqueuedWhenInserted

\* C20 amended: the same for every type-valid cast that insert_elem admits,
\* one that is non-malleable and within the opcount limit.
C20_ClosedUnderAdmissibleCasts ==
    /\ pc = "done" =>
          \A c \in CastsOfAccepted :
              (c.ok /\ ~Inadmissible(c.elem)) => Dominated(map, c.elem)
    /\ EnqueuedWhenInserted

\* a call returned after it had inserted a cast of an element it had
\* inserted, and a type-valid cast of one of them was over the opcount limit
C20_Witness ==
    /\ pc = "done"
    /\ \E n, m \in 1..Len(accepted) :
          \E i \in 1..NumCasts : n < m /\ cast(i, accepted[n]).elem = accepted[m]
    /\ \E c \in CastsOfAccepted :
          /\ c.ok
          /\ c.elem.ms.ty.mall.non_malleable
          /\ c.elem.ms.ext.ops_count_sat > MAX_OPS_PER_SCRIPT

(***************************************************************************)
(* tests::compile_q (compiler.rs 1246-1252): the compilation of            *)
(* or(1@and(pk(),pk()),127@pk()), every pk() being the same dummy key.     *)
(***************************************************************************)

CompileQ == Or(<<1, 127>>, <<And(<<Key(1), Key(1)>>), Key(1)>>)

InitCompileQ ==
    /\ policy = CompileQ
    /\ stack = <<>>
    /\ policy_cache = EmptyMap
    /\ status = "Idle"
    /\ fragment = <<>>
    /\ failed = <<>>
    /\ calls = 0
    /\ previous = <<>>
    /\ InsertIdle
    /\ ClosureIdle
    /\ CodecIdle

SpecCompileQ == InitCompileQ /\ [][Next]_vars

\* C16: compiling or(1@and(pk,pk), 127@pk) at sat_prob 1 and no dissat
\* probability yields a fragment whose one-dimensional cost is exactly 88
\* (script bytes) + 74.109375 (expected satisfaction bytes): the fragment
\* best_t picks has pk_cost 88 and sat_cost 74 + 14/128.
C16_CompileQCost ==
    /\ Returned => status = "Ok"
    /\ status = "Ok" =>
          \E k \in DOMAIN policy_cache[Root] :
              LET e == policy_cache[Root][k]
              IN  /\ e.ms = fragment[1]
                  /\ e.ms.ext.pk_cost = 88
                  /\ Mul(Scale, e.comp_ext_data.sat_cost) = (74 * 128 + 14) * (Scale \div 128)
                  /\ cost_1d(e, Scale, None)
                        = 88 * Scale + (74 * 128 + 14) * (Scale \div 128)

\* the second compilation of the policy returned a fragment
C16_Witness ==
    /\ policy = CompileQ
    /\ status = "Ok"
    /\ fragment # <<>>
    /\ calls = 2

\* the cached type and extra data of ms and of every node below it are the
\* ones type-checking the node kind from its children gives
RECURSIVE CachedIsChecked(_)
CachedIsChecked(ms) ==
    /\ Type_type_check(ms.node).ok
    /\ ms.ty = Type_type_check(ms.node).ty
    /\ ms.ext = ExtData_type_check(ms.node)
    /\ \A i \in 1..Len(ms.node.subs) : CachedIsChecked(ms.node.subs[i])

RECURSIVE Bare(_)
Bare(ms) ==
    [op |-> ms.node.op, arg |-> ms.node.arg,
     subs |-> [i \in 1..Len(ms.node.subs) |-> Bare(ms.node.subs[i])]]

\* equality of every field
eq_fields(a, b) == a = b

eq(a, b) == Bare(a) = Bare(b)

\* l:after(9) as the compiler makes it, by Cast::cast
CastLikely == cast(3, InsertLeaves[3]).elem.ms

SubjectsOf(samples) == {samples[i] : i \in 1..Len(samples)} \cup {CastLikely}

Subjects == SubjectsOf(Samples)

\* bytes put into a text: below the test of line 269, at its two ends, and
\* above it
Bytes == {9, 19, 20, 31, 32, 126, 127, 128}

\* s with byte b before position i
Spliced(s, i, b) == SubSeq(s, 1, i - 1) \o <<b>> \o SubSeq(s, i, Len(s))

\* the text of m, and the text with one more byte at its start, at its end,
\* or at both
Texts(m) ==
    LET s == Display(m)
    IN  {s}
        \cup {Spliced(s, i, b) : i \in {1, Len(s) + 1}, b \in Bytes}
        \cup {<<b>> \o s \o <<c>> : b \in {20, 126}, c \in {19, 128}}

\* the Script of m, and the Script after an opcode no fragment ends with
Scripts(m) ==
    LET script == encode(m)
    IN  {script, <<Op("IF")>> \o script, <<Op("ELSE"), Op("IF")>> \o script,
         <<Op("VERIFY")>>, <<>>}

InitCodec ==
    /\ CompileIdle
    /\ InsertIdle
    /\ ClosureIdle
    /\ subject \in Subjects
    /\ called = "none"
    /\ input = <<>>
    /\ outcome = [ok |-> FALSE]

\* Miniscript::from_str(s) (mod.rs 267-282)
FromStr(s) ==
    /\ called' = "from_str"
    /\ input' = s
    /\ outcome' = from_str(s)
    /\ UNCHANGED <<subject, cvars, ivars, qvars>>

\* Miniscript::parse(script) (mod.rs 130-144)
Parse(script) ==
    /\ called' = "parse"
    /\ input' = script
    /\ outcome' = parse(script)
    /\ UNCHANGED <<subject, cvars, ivars, qvars>>

NextCodec ==
    \/ \E s \in Texts(subject) : FromStr(s)
    \/ \E script \in Scripts(subject) : Parse(script)

SpecCodec == InitCodec /\ [][NextCodec]_vars

\* the values Miniscript::from_ast or Cast::cast can have made
IsMiniscript(m) == from_ast(m.node).ok

OfBaseB(m) == IsMiniscript(m) /\ m.ty.corr.base = "B"

Unprintable(s) == {i \in 1..Len(s) : ~printable(s[i])}

\* C14: from_str rejects every string that holds a byte which is not a
\* printable ASCII character, with Error::Unprintable carrying such a byte.
C14_UnprintableRejected ==
    (called = "from_str" /\ Unprintable(input) # {})
        => /\ ~outcome.ok
           /\ outcome.err = "Unprintable"
           /\ \E i \in Unprintable(input) : outcome.byte = input[i]

\* C11: for every Miniscript m of base B, from_str on the text Display
\* writes for m returns Ok of a Miniscript equal to m.
C11_StringRoundTrip ==
    (called = "from_str" /\ input = Display(subject) /\ OfBaseB(subject))
        => outcome.ok /\ eq(outcome.ms, subject)

\* from_str returned a value equal to one made by Cast::cast, whose ext is
\* not the one from_ast computes
C11_Witness ==
    /\ called = "from_str"
    /\ subject = CastLikely
    /\ input = Display(subject)
    /\ outcome.ok
    /\ eq(outcome.ms, subject)
    /\ outcome.ms.ext # subject.ext

\* C12: for every Miniscript m of base B, parse on the Script m.encode()
\* makes returns Ok of a Miniscript equal to m, and that Script is
\* m.script_size() bytes long.
C12_ScriptRoundTrip ==
    (called = "parse" /\ input = encode(subject) /\ OfBaseB(subject))
        => /\ outcome.ok
           /\ eq(outcome.ms, subject)
           /\ ScriptLen(input) = script_size(subject)

\* what parse returns of a tree decoded, by the claim
ParseChecks(decoded, ret) ==
    decoded.ok =>
        IF ~IsMiniscript(decoded.top) THEN ret = Err("TypeCheck")
        ELSE IF decoded.top.ty.corr.base # "B" THEN ret = Err("NonTopLevel")
        ELSE IF decoded.left # <<>> THEN ret = Err("Trailing")
        ELSE ret.ok

\* what from_str returns of a tree parsed, by the claim
FromStrChecks(tree, ms, ret) ==
    (tree.ok /\ ms.ok /\ ms.ms.ty.corr.base # "B") => ret = Err("NonTopLevel")

\* the last parse call met a well-typed tree of base K with tokens before it
KeyAfterTokens(decoded) ==
    /\ decoded.ok
    /\ IsMiniscript(decoded.top)
    /\ decoded.top.ty.corr.base = "K"
    /\ decoded.left # <<>>

\* C13: parse returns Ok only of a well-typed tree of base B; when the tree
\* decoded is ill-typed it returns the type error, else when its base is not
\* B it returns NonTopLevel, else when tokens remain before it it returns
\* Trailing; from_str returns NonTopLevel when the tree it parsed is
\* well-typed and its base is not B, and Ok only of a tree of base B.
C13_ParsersCheckTheTop ==
    /\ (called \in {"parse", "from_str"} /\ outcome.ok) => OfBaseB(outcome.ms)
    /\ called = "parse" => ParseChecks(decode_parse(input), outcome)
    /\ (called = "from_str" /\ Unprintable(input) = {}) =>
          FromStrChecks(Tree_from_str(input),
                        Miniscript_from_tree(Tree_from_str(input).tree), outcome)

\* parse met a well-typed tree of base K with a token left before it
C13_Witness ==
    /\ called = "parse"
    /\ outcome = Err("NonTopLevel")
    /\ KeyAfterTokens(decode_parse(input))

(***************************************************************************)
(* The memoization cache of best_compilations (compiler.rs 752-757,        *)
(* 988-999).                                                               *)
(***************************************************************************)

\* every entry of cache a is in cache b with the same map
CacheKept(a, b) == \A k \in DOMAIN a : k \in DOMAIN b /\ b[k] = a[k]

\* C21: within one best_compilation call a cache entry, once written, is
\* never changed or removed: the branch_prob written by compile_binary and
\* compile_tern on the maps they got stays out of the cache, and a later
\* hit reads the map first computed.
C21_CacheEntriesFinal ==
    [][calls' = calls => CacheKept(policy_cache, policy_cache')]_vars

\* an And was compiled from the cached maps of its sub-policies, read more
\* than once, and these still hold the branch_prob they were stored with
C21_Witness ==
    /\ status = "Ok"
    /\ policy.kind = "And"
    /\ Cached(policy_cache, Request(policy.subs[1], Scale, None))
    /\ \A k \in DOMAIN policy_cache[Request(policy.subs[1], Scale, None)] :
          policy_cache[Request(policy.subs[1], Scale, None)][k].comp_ext_data.branch_prob
              # Scale
    /\ \E k \in DOMAIN policy_cache[Root] :
          policy_cache[Root][k].ms.node.op \in {"and_b", "and_v", "andor"}

\* C22: every entry of a map best_compilations returned has the dissat_prob
\* of the call in its key, and the type of its fragment as the key's type.
C22_KeysMatchCall ==
    \A req \in DOMAIN policy_cache : \A k \in DOMAIN policy_cache[req] :
        /\ k.dissat_prob = req.dissat_prob
        /\ k.ty = policy_cache[req][k].ms.ty

\* a call with a dissat probability returned a map with entries
C22_Witness ==
    \E req \in DOMAIN policy_cache :
        /\ req.dissat_prob # None
        /\ policy_cache[req] # EmptyMap
        /\ \A k \in DOMAIN policy_cache[req] : k.dissat_prob = req.dissat_prob

\* C23: in every key built for a candidate, expensive_verify is the
\* opposite of the fragment's has_verify_form.
C23_ExpensiveVerifyIsOpposite ==
    \A req \in DOMAIN policy_cache : \A k \in DOMAIN policy_cache[req] :
        k.expensive_verify = ~policy_cache[req][k].ms.ext.has_verify_form

(***************************************************************************)
(* The Or arm of best_compilations (compiler.rs 834-922), on Or policies   *)
(* with and without an And branch.                                         *)
(***************************************************************************)

OrPolicies ==
    { CompileQ,
      Or(<<1, 1>>, <<Key(1), Key(2)>>),
      Or(<<1, 3>>, <<Key(1), And(<<Key(2), After(9)>>)>>) }

InitOr ==
    /\ policy \in OrPolicies
    /\ stack = <<>>
    /\ policy_cache = EmptyMap
    /\ status = "Idle"
    /\ fragment = <<>>
    /\ failed = <<>>
    /\ calls = 0
    /\ previous = <<>>
    /\ InsertIdle
    /\ ClosureIdle
    /\ CodecIdle

SpecOr == InitOr /\ [][Next]_vars

\* the compile_tern and compile_binary calls the Or arm makes for a request
\* whose sub-requests rs are in the cache
OrCompileCalls(req, rs) ==
    OrArmCompiles(req.policy,
                  [i \in 1..Len(rs) |-> Values(policy_cache[rs[i]], 1)],
                  IF IsAndOr(req.policy, 1) THEN 5 ELSE 0,
                  IF IsAndOr(req.policy, 2) THEN 5 ELSE 0)

\* the operators of a list of compile calls
CompileOps(cs) == {cs[i].op : i \in 1..Len(cs)}

\* the fragments the calls hand to insert_best_wrapped
Generated(cs) == Compiled(cs).elems

GeneratedOps(elems) == {elems[i].ms.node.op : i \in 1..Len(elems)}

\* the Or requests best_compilations has returned a map for
OrRequests == {req \in DOMAIN policy_cache : req.policy.kind = "Or" /\ ~Malformed(req.policy)}

AndBranches(p) == {i \in 1..2 : IsAndOr(p, i)}

BinaryOps == {"or_b", "or_d", "or_c", "or_i"}

\* C24 as stated: for an Or policy the and-or candidates are generated when
\* a branch is an And, and the or_b, or_d, or_c and or_i candidates only
\* when neither branch is an And.
C24_OrCandidatesOnlyWithoutAnd ==
    \A req \in OrRequests :
        /\ AndBranches(req.policy) # {}
              => "andor" \in CompileOps(OrCompileCalls(req, ChildRequests(req)))
        /\ AndBranches(req.policy) # {}
              => GeneratedOps(Generated(OrCompileCalls(req, ChildRequests(req))))
                    \cap BinaryOps = {}

\* the calls of the Or arm by kind of operator
CallsOf(cs, ops) == Cardinality({i \in 1..Len(cs) : cs[i].op \in ops})

\* C24 amended: for an Or policy the Or arm makes two compile_tern calls for
\* each branch that is an And, and its ten compile_binary calls for or_b,
\* or_d, or_c and or_i whether or not a branch is an And.
C24_OrCandidatesAlways ==
    \A req \in OrRequests :
        /\ CallsOf(OrCompileCalls(req, ChildRequests(req)), {"andor"})
              = 2 * Cardinality(AndBranches(req.policy))
        /\ CallsOf(OrCompileCalls(req, ChildRequests(req)), BinaryOps) = 10
        /\ CompileOps(OrCompileCalls(req, ChildRequests(req))) \cap BinaryOps = BinaryOps

\* an Or with an And branch was compiled, and both an and-or fragment and an
\* or_b, or_d, or_c or or_i fragment were handed to insert_best_wrapped
C24_Witness ==
    \E req \in OrRequests :
        /\ AndBranches(req.policy) # {}
        /\ "andor" \in GeneratedOps(Generated(OrCompileCalls(req, ChildRequests(req))))
        /\ GeneratedOps(Generated(OrCompileCalls(req, ChildRequests(req)))) \cap BinaryOps # {}

(***************************************************************************)
(* The Threshold arm of best_compilations (compiler.rs 923-983).           *)
(***************************************************************************)

ThresholdPolicies ==
    { Threshold(2, <<Key(1), Key(2), Key(3)>>),
      Threshold(2, <<After(9), After(9), Key(1)>>),
      Threshold(1, <<Key(1), Or(<<1, 1>>, <<Key(2), Key(3)>>)>>),
      Threshold(1, <<Key(1), Sha256(7)>>),
      Threshold(0, <<Key(1), Key(2)>>) }

InitThreshold ==
    /\ policy \in ThresholdPolicies
    /\ stack = <<>>
    /\ policy_cache = EmptyMap
    /\ status = "Idle"
    /\ fragment = <<>>
    /\ failed = <<>>
    /\ calls = 0
    /\ previous = <<>>
    /\ InsertIdle
    /\ ClosureIdle
    /\ CodecIdle

SpecThreshold == InitThreshold /\ [][Next]_vars

\* the Threshold requests best_compilations has returned a map for
ThresholdRequests ==
    {req \in DOMAIN policy_cache : req.policy.kind = "Threshold" /\ ~Malformed(req.policy)}

\* the filters of best_e and best_w, as the claim words them
PassesE(e) == e.ms.ty.corr.base = "B" /\ e.ms.ty.corr.unit /\ e.ms.ty.mall.dissat = "Unique"

PassesW(e) == e.ms.ty.corr.base = "W" /\ e.ms.ty.corr.unit /\ e.ms.ty.mall.dissat = "Unique"

\* the costs of the entries of a map that pass as E, or as W
CostsOf(m, r, as_e) ==
    {cost_1d(m[k], r.sat_prob, r.dissat_prob) :
        k \in {k \in DOMAIN m : IF as_e THEN PassesE(m[k]) ELSE PassesW(m[k])}}

\* ms is a cheapest entry of the map m passing as E, or as W
IsBest(ms, m, r, as_e) ==
    \E k \in DOMAIN m :
        /\ m[k].ms = ms
        /\ IF as_e THEN PassesE(m[k]) ELSE PassesW(m[k])
        /\ cost_1d(m[k], r.sat_prob, r.dissat_prob) = Min(CostsOf(m, r, as_e))

\* E cost minus W cost of the sub-policy with request r
Diff(r) == Min(CostsOf(policy_cache[r], r, TRUE)) - Min(CostsOf(policy_cache[r], r, FALSE))

\* the lowest index whose difference is least
Designated(rs) ==
    CHOOSE m \in 1..Len(rs) :
        /\ \A j \in 1..Len(rs) : Diff(rs[m]) <= Diff(rs[j])
        /\ \A j \in 1..(m - 1) : Diff(rs[j]) > Diff(rs[m])

\* the children of the Thresh fragment are the E of sub-policy m, then the W
\* of the others in policy order
ChildrenAsClaimed(subs, rs, m) ==
    /\ Len(subs) = Len(rs)
    /\ IsBest(subs[1], policy_cache[rs[m]], rs[m], TRUE)
    /\ \A p \in 2..Len(subs) :
          IsBest(subs[p], policy_cache[rs[IF p - 1 < m THEN p - 1 ELSE p]],
                 rs[IF p - 1 < m THEN p - 1 ELSE p], FALSE)

\* the requests made for the sub-policies are as claimed: sat_prob * k / n
\* and dissat_prob (0 if absent) + (1 - k/n) * sat_prob
RequestsAsClaimed(req, rs, k, n) ==
    /\ Len(rs) = n
    /\ \A i \in 1..n :
          /\ rs[i].policy = req.policy.subs[i]
          /\ rs[i].sat_prob * n = req.sat_prob * k
          /\ rs[i].dissat_prob # None
          /\ rs[i].dissat_prob * n
                = (IF req.dissat_prob = None THEN 0 ELSE req.dissat_prob) * n
                    + (n - k) * req.sat_prob

\* the Thresh fragment the arm builds under an iteration order
ThreshBuilt(req, rs, seed) ==
    ThresholdArm(req.policy, [i \in 1..Len(rs) |-> Values(policy_cache[rs[i]], seed)],
                 rs[1]).elems[1]

ThreshAsClaimed(req, rs, frag) ==
    /\ frag.ms.node.op = "thresh"
    /\ frag.ms.node.arg = req.policy.arg
    /\ ChildrenAsClaimed(frag.ms.node.subs, rs, Designated(rs))

\* C25: for a Threshold(k, subs) policy of n subs the Thresh(k, ...)
\* fragment has n children: the best E compilation of the sub whose E cost
\* minus W cost is least (the lowest index on ties), then the best W
\* compilations of the other subs in policy order; every sub is compiled
\* with sat probability sat_prob*k/n and dissat probability dissat_prob (0
\* if absent) + (1 - k/n)*sat_prob.
C25_ThreshChildren ==
    \A req \in ThresholdRequests :
        /\ RequestsAsClaimed(req, ChildRequests(req), req.policy.arg, Len(req.policy.subs))
        /\ \A seed \in 1..NumOrders :
              ThreshAsClaimed(req, ChildRequests(req),
                              ThreshBuilt(req, ChildRequests(req), seed))

\* a Threshold was compiled whose E child is not its first sub-policy
C25_Witness ==
    \E req \in ThresholdRequests :
        /\ Designated(ChildRequests(req)) > 1
        /\ ThreshAsClaimed(req, ChildRequests(req),
                           ThreshBuilt(req, ChildRequests(req), 1))

(***************************************************************************)
(* best_t, best_e and best_w (compiler.rs 1089-1163) on the maps            *)
(* best_compilations returns.                                              *)
(***************************************************************************)

\* the keys of a map that pass the filter of best_t ("T"), best_e ("E") or
\* best_w ("W") for a requested dissat_prob
Passing(m, which, dissat_prob) ==
    {k \in DOMAIN m :
        /\ k.dissat_prob = dissat_prob
        /\ k.ty.corr.base = (IF which = "W" THEN "W" ELSE "B")
        /\ which # "T" => k.ty.corr.unit /\ m[k].ms.ty.mall.dissat = "Unique"}

\* found is Ok of a cheapest passing entry, or the error when none passes
MinimumOf(found, m, passing, req) ==
    IF passing = {} THEN found = <<>>
    ELSE /\ Len(found) = 1
         /\ \E k \in passing : m[k] = found[1]
         /\ \A k \in passing :
               cost_1d(found[1], req.sat_prob, req.dissat_prob)
                   <= cost_1d(m[k], req.sat_prob, req.dissat_prob)

\* best_t, best_e and best_w applied to the candidate map as it stands, as
\* best_compilations would return it, under one iteration order
Best(seed) ==
    /\ fragment = <<>>
    /\ inserts > 0
    /\ fragment' = << best_t(Values(map, seed), probs[1], probs[2]),
                      best_e(Values(map, seed), probs[1], probs[2]),
                      best_w(Values(map, seed), probs[1], probs[2]) >>
    /\ UNCHANGED <<policy, stack, policy_cache, status, failed, calls, previous,
                   ivars, qvars, kvars>>

NextBest ==
    \/ \E e \in Candidates : fragment = <<>> /\ Insert(e)
    \/ \E seed \in 1..NumOrders : Best(seed)

SpecBest == InitInsert /\ [][NextBest]_vars

BestAsClaimed(found, req) ==
    /\ MinimumOf(found[1], map, Passing(map, "T", req.dissat_prob), req)
    /\ MinimumOf(found[2], map, Passing(map, "E", req.dissat_prob), req)
    /\ MinimumOf(found[3], map, Passing(map, "W", req.dissat_prob), req)

WrapperOf(node, x) ==
    CASE node.op = "c" -> "Check"
      [] node.op = "d" -> "DupIf"
      [] node.op = "v" -> "Verify"
      [] node.op = "j" -> "NonZero"
      [] node.op = "s" -> "Swap"
      [] node.op = "a" -> "Alt"
      [] node.op = "n" -> "ZeroNotEqual"
      [] node.op = "and_v" -> "True"
      [] node.op = "or_i" /\ node.subs[1] = x -> "unlikely"
      [] node.op = "or_i" /\ node.subs[1] # x -> "likely"

\* the sat and dissat costs the claim gives for a wrapper, in one byte = Scale
ClaimedCosts(w, sat, dissat) ==
    CASE w \in {"Alt", "Swap", "Check", "ZeroNotEqual"} -> <<sat, dissat>>
      [] w \in {"DupIf", "unlikely"} -> <<sat + 2 * Scale, Scale>>
      [] w \in {"Verify", "True"} -> <<sat, None>>
      [] w = "NonZero" -> <<sat, Scale>>
      [] w = "likely" -> <<sat + Scale, 2 * Scale>>

CostsAsClaimed(w, from, to) ==
    /\ to.branch_prob = None
    /\ <<to.sat_cost, to.dissat_cost>> = ClaimedCosts(w, from.sat_cost, from.dissat_cost)

\* the for loop has cast the popped element
CastTried == pc \in {"for", "while"} /\ next_cast >= 2 /\ current # <<>> /\ tried.ok

\* C27: each cast changes the compiler costs by a fixed rule and resets
\* branch_prob to None: DupIf sat+2, dissat 1; Verify and True keep sat and
\* remove dissat; NonZero keeps sat, dissat 1; unlikely (OrI(x, False)) sat+2,
\* dissat 1; likely (OrI(False, x)) sat+1, dissat 2; Alt, Swap, Check and
\* ZeroNotEqual leave sat and dissat unchanged.
C27_CastCosts ==
    CastTried =>
        CostsAsClaimed(WrapperOf(tried.elem.ms.node, current[1].ms),
                       current[1].comp_ext_data, tried.elem.comp_ext_data)

\* a likely cast of a fragment that has a dissatisfaction cost of its own
C27_Witness ==
    /\ CastTried
    /\ WrapperOf(tried.elem.ms.node, current[1].ms) = "likely"
    /\ current[1].comp_ext_data.dissat_cost \notin {None, 2 * Scale}
    /\ tried.elem.comp_ext_data.sat_cost = current[1].comp_ext_data.sat_cost + Scale

(***************************************************************************)
(* Candidates stay dominated (compiler.rs 626-667).                        *)
(***************************************************************************)

\* a candidate passes the checks of lines 633-640
Admissible(e) ==
    /\ e.ms.ty.mall.non_malleable
    /\ e.ms.ext.ops_count_sat # None => e.ms.ext.ops_count_sat <= MAX_OPS_PER_SCRIPT

\* the candidate offered by a call is dominated after it, and a candidate
\* dominated before a call is dominated after it; m is the map before the
\* call and n the map after it
StaysDominated(m, n, offered) ==
    /\ (offered # <<>> /\ Admissible(offered[1])) => Dominated(n, offered[1])
    /\ m # n => \A e \in Candidates :
                    (Admissible(e) /\ Dominated(m, e)) => Dominated(n, e)

\* C28: every candidate offered to insert_elem that passes the
\* malleability and opcode-count checks is, from then until the map is
\* returned, dominated by some entry of the map: one whose key is a subtype
\* of the candidate's key and whose cost is no higher.
C28_CandidatesStayDominated == StaysDominated(before, map, elem)

\* an insert took out an entry, which a different entry now dominates, and
\* an earlier one turned a candidate down
C28_Witness ==
    /\ inserted
    /\ \E k \in DOMAIN before :
          /\ k \notin DOMAIN map
          /\ Admissible(before[k])
          /\ Dominated(map, before[k])
    /\ \E e \in Candidates : Admissible(e) /\ e \notin {map[k] : k \in DOMAIN map}
                                /\ Dominated(map, e)

(***************************************************************************)
(* Termination of best_compilation (compiler.rs 702-760, 1075-1087).       *)
(***************************************************************************)

\* the policies strictly inside p
RECURSIVE SubPolicies(_)
SubPolicies(p) ==
    UNION {{p.subs[i]} \cup SubPolicies(p.subs[i]) : i \in 1..Len(p.subs)}

\* the call b made by the call a is on the same policy from a request with a
\* dissat_prob to one without, or on a policy strictly inside
CallAsClaimed(a, b) ==
    IF b.policy = a.policy
    THEN a.dissat_prob # None /\ b.dissat_prob = None
    ELSE b.policy \in SubPolicies(a.policy)

\* the calls in progress: each made as claimed, no two alike
StackAsClaimed(s) ==
    /\ \A j \in 1..(Len(s) - 1) : CallAsClaimed(s[j], s[j + 1])
    /\ \A i, j \in 1..Len(s) : i # j => s[i] # s[j]

\* the requests a best_compilations(req) can come to make
RECURSIVE Requests(_)
Requests(req) ==
    {req}
      \cup (IF req.dissat_prob # None THEN Requests(SelfNone(req)) ELSE {})
      \cup (IF Malformed(req.policy) THEN {}
            ELSE UNION {Requests(ChildRequests(req)[i]) :
                           i \in 1..Len(ChildRequests(req))})

\* what is left to do: two for every request not yet in the cache, less one
\* for every call in progress
Variant(s, cache) == 2 * Cardinality(Requests(Root) \ DOMAIN cache) - Len(s)

\* a step of the running code ends best_compilation or brings the variant
\* down, and leaves the calls in progress as claimed
Decreases(s, cache, t, cache_after) ==
    /\ StackAsClaimed(t)
    /\ \A j \in 1..Len(t) : ~Cached(cache_after, t[j])
    /\ Variant(t, cache_after) >= 0
    /\ Variant(t, cache_after) < Variant(s, cache)

\* C29: best_compilation terminates for every finite policy: a call with a
\* dissat probability recurses on the same policy only with None, a None
\* call never recurses on the same policy, every other recursive call is on
\* a strict sub-policy, so no cache key is requested again while it is still
\* being computed.
C29_Terminates ==
    [][status = "Running" =>
          (status' # "Running" \/ Decreases(stack, policy_cache, stack', policy_cache'))]_vars

\* a call on a sub-policy with a dissat_prob has called itself with None
C29_Witness ==
    /\ status = "Running"
    /\ Len(stack) >= 3
    /\ stack[Len(stack)].policy = stack[Len(stack) - 1].policy
    /\ stack[Len(stack)].dissat_prob = None
    /\ Variant(stack, policy_cache) > 0

(***************************************************************************)
(* The probabilities handed down the recursion (compiler.rs 811-817,       *)
(* 834-907, 923-940).                                                      *)
(***************************************************************************)

\* sat_prob + dissat_prob (0 if absent) of a request
Mass(req) == req.sat_prob + (IF req.dissat_prob = None THEN 0 ELSE req.dissat_prob)

\* the requests best_compilations has been called on
Requested == {stack[j] : j \in 1..Len(stack)} \cup DOMAIN policy_cache

\* the calls a best_compilations(req) makes for its sub-policies keep to the
\* mass of req
ConservesMass(req, rs) ==
    \A i \in 1..Len(rs) :
        /\ rs[i].sat_prob > 0
        /\ Mass(rs[i]) <= Mass(req)
        /\ Mass(rs[i]) <= Scale

\* the two branch weights of an Or sum to 1
OrWeightsSumToOne(p) == OrWeight(p, 1) + OrWeight(p, 2) = Scale

\* C30: probability mass is conserved down the recursion: starting from
\* (sat_prob 1, no dissat probability), every recursive best_compilations
\* call made for a child of an And, Or or Threshold has sat_prob > 0 and
\* sat_prob + dissat_prob (0 if absent) <= the same sum of its parent call,
\* hence <= 1; for an Or with weights wL, wR the two branch weights are
\* wL/(wL+wR) and wR/(wL+wR) and sum to 1.
C30_MassConserved ==
    \A req \in Requested :
        /\ ConservesMass(req, ChildRequests(req))
        /\ (req.policy.kind = "Or" /\ ~Malformed(req.policy)) => OrWeightsSumToOne(req.policy)

====
